---- MODULE Spec2Model ----
(***************************************************************************)
(* Model of the local-first object/picture synchronisation layer:          *)
(* services/localStorage (write mutex, saveObject, clearAllObjects,        *)
(* clearAndSyncFromSupabase, syncFromSupabase, the read operations and the *)
(* daily quota check) and services/storageService (createStorageReference, *)
(* deletePictureAndObjects, getUserPicturesWithObjectCounts).              *)
(*                                                                         *)
(* Every `await` of the source is a step boundary: a call is a process     *)
(* whose pc names the await it is suspended at.  The JavaScript run-to-    *)
(* completion rule makes the code between two awaits one atomic action.    *)
(***************************************************************************)
EXTENDS Integers, Sequences, FiniteSets, TLC

(***************************************************************************)
(* Bounds of the model.                                                    *)
(***************************************************************************)
MaxObjects == 2      \* remote Object rows the main specification creates
MaxPictures == 3     \* remote Picture rows the main specification creates
MaxQuotaRows == 11   \* Picture rows the quota specification creates
MaxOtherRows == 1    \* of which rows of the second owner
MaxDeletedRows == 1  \* of which soft-deleted rows
DayLen == 2          \* clock ticks per calendar day

DAILY_LIMIT == 10

Procs == {"p1", "p2"}
Users == {"u1", "u2"}
NoUser == "null"
UserArgs == Users \cup {NoUser}
Names == {"cup", "key"}

(***************************************************************************)
(* Image references.  A reference is either a plain file path, a signed    *)
(* URL of a stored file (path plus token), or some other http URL.         *)
(***************************************************************************)
PathRef(f) == <<"path", f, "">>
SignedRef(f, t) == <<"signed", f, t>>
ImageRefs == {PathRef(1), SignedRef(1, "t1")}

startsWithHttp(url) == url[1] # "path"

extractFilePathFromUrl(url) ==
  IF ~startsWithHttp(url) THEN url
  ELSE IF url[1] = "signed" THEN PathRef(url[2])
  ELSE <<"null", 0, "">>

\* the reference taken as it comes
rawReference(imageUrl) == imageUrl

createStorageReference(imageUrl) ==
  IF ~startsWithHttp(imageUrl) THEN imageUrl
  ELSE IF extractFilePathFromUrl(imageUrl)[1] # "null"
       THEN extractFilePathFromUrl(imageUrl)
       ELSE imageUrl

safeUserId(userOrId) == userOrId

VARIABLES
  isWriting,     \* the mutex flag
  storage,       \* AsyncStorage[STORAGE_KEY], parsed: sequence of entries
  syncKey,       \* AsyncStorage[SYNC_KEY]: -1 (absent) or a timestamp
  lastSyncTime,  \* AsyncStorage['last_sync_time']: -1 or a timestamp
  authUser,      \* what supabase.auth.getUser() yields: a user or NoUser
  pictures,      \* remote table pictures: row id = index
  objects,       \* remote table objects: row id = index
  procs,         \* the calls in progress: one record per process
  clock,         \* the clock (device and server)
  lastRead,      \* the result of the last read operation
  lastCheck,     \* the result of the last checkDailyPictureLimit
  screen         \* what the screens and components hold and show

vars == <<isWriting, storage, syncKey, lastSyncTime, authUser, pictures,
          objects, procs, clock, lastRead, lastCheck, screen>>

(***************************************************************************)
(* Sequence helpers.                                                       *)
(***************************************************************************)
RECURSIVE Rev(_)
Rev(s) == IF s = <<>> THEN <<>> ELSE Append(Rev(Tail(s)), Head(s))

NoRef == <<"null", 0, "">>

Idle ==
  [op |-> "none", pc |-> "idle", user_id |-> NoUser, image |-> NoRef,
   std |-> NoRef, name |-> "", existing |-> <<>>, picture_id |-> 0,
   obj_id |-> 0, fetched |-> <<>>, fetchOk |-> FALSE, wrote |-> FALSE, remoteFailed |-> FALSE,
   caller |-> "none", ret |-> <<>>]

NoRead == [op |-> "none", user |-> NoUser, result |-> <<>>, pics |-> <<>>]
NoCheck == [valid |-> FALSE, user |-> NoUser, at |-> 0, err |-> FALSE,
            canTakePicture |-> FALSE, todayCount |-> 0, limit |-> 0]

\* the screens before any flow has run
NoText == [kind |-> "none", words |-> <<>>, isArray |-> FALSE, items |-> <<>>]

NoAnalysis ==
  [done |-> FALSE, outcome |-> "none", text |-> NoText,
   result |-> [ok |-> TRUE, v |-> <<>>]]

Flows == {"f1", "f2"}

NoFlow == [pc |-> "idle", user |-> NoUser, limitCheck |-> NoCheck]

NoSave ==
  [pc |-> "idle", isEditMode |-> FALSE, objects |-> <<>>, i |-> 0,
   user |-> NoUser, picture_id |-> 0, runs |-> 0]

NoSync ==
  [pc |-> "idle", user |-> NoUser, alert |-> "none", fetchOk |-> FALSE,
   fetchFailed |-> FALSE, onSyncComplete |-> FALSE]

NoCapture ==
  [pc |-> "idle", kind |-> "none", user |-> NoUser, limitCheck |-> NoCheck,
   isLoading |-> FALSE, everLoading |-> FALSE, captured |-> FALSE,
   uploaded |-> FALSE, analysed |-> FALSE, alert |-> "none"]

NoReference == [done |-> FALSE, input |-> NoRef, ref |-> NoRef, again |-> NoRef]

NoScreen ==
  [analysis |-> NoAnalysis, flows |-> [f \in Flows |-> NoFlow],
   save |-> NoSave, sync |-> NoSync, capture |-> NoCapture,
   reference |-> NoReference]

Init ==
  /\ screen = NoScreen
  /\ isWriting = FALSE
  /\ storage = <<>>
  /\ syncKey = -1
  /\ lastSyncTime = -1
  /\ authUser = NoUser
  /\ pictures = <<>>
  /\ objects = <<>>
  /\ procs = [p \in Procs |-> Idle]
  /\ clock = 0
  /\ lastRead = NoRead
  /\ lastCheck = NoCheck

(***************************************************************************)
(* The write mutex.  writeMutex spins while isWriting holds (a spin        *)
(* changes nothing, so it is a stuttering step); the test that ends the    *)
(* loop and the assignment isWriting = true run without an await between   *)
(* them, so acquisition is one atomic step, enabled when the flag is down. *)
(***************************************************************************)
writeMutexNoTest == isWriting' = TRUE

writeMutex == ~isWriting /\ isWriting' = TRUE

releaseMutex == isWriting' = FALSE

Set(p, r) == procs' = [procs EXCEPT ![p] = r]

(***************************************************************************)
(* getCurrentUserId and getAllObjects.                                     *)
(***************************************************************************)
getCurrentUserId == safeUserId(authUser)

ResolveUser(user_id) ==
  IF user_id = NoUser THEN getCurrentUserId ELSE safeUserId(user_id)

\* getAllObjects without the filter on user_id
getAllObjectsUnfiltered(user_id, readOk) ==
  IF ResolveUser(user_id) = NoUser \/ ~readOk THEN <<>> ELSE storage

getAllObjects(user_id, readOk) ==
  LET uid == ResolveUser(user_id)
      allObjects == storage
  IN IF ~readOk THEN <<>>
     ELSE IF uid # NoUser
          THEN SelectSeq(allObjects, LAMBDA obj : obj.user_id = uid)
          ELSE <<>>

LocalEntry(p) ==
  [id |-> 0, object_name |-> procs[p].name, image_url |-> procs[p].std,
   user_id |-> procs[p].user_id, picture_id |-> 0, deleted |-> "undefined"]

SaveCalls == {q \in Procs : procs[q].op = "saveObject"}

(***************************************************************************)
(* A call starts and reaches `await writeMutex()`.  Processes name the     *)
(* calls in flight: the second name is used only while the first is busy.  *)
(***************************************************************************)
CanCall(p) ==
  /\ procs[p].pc = "idle"
  /\ p = "p2" => procs["p1"].pc # "idle"

CallSaveObject(p) ==
  /\ CanCall(p)
  /\ Len(objects) + Cardinality(SaveCalls) < MaxObjects
  /\ Len(pictures) + Cardinality(SaveCalls) < MaxPictures
  /\ Set(p, [Idle EXCEPT !.op = "saveObject", !.pc = "mutex"])
  /\ UNCHANGED <<isWriting, storage, syncKey, lastSyncTime, authUser,
                 pictures, objects, clock, lastRead, lastCheck, screen>>

\* the finally block; a clearAllObjects that syncFromSupabase called returns
\* into the caller, which returns [] through its own finally block
Release(p) ==
  /\ procs[p].pc = "release"
  /\ releaseMutex
  /\ IF procs[p].caller = "none"
     THEN Set(p, Idle)
     ELSE Set(p, [procs[p] EXCEPT !.op = procs[p].caller, !.caller = "none"])
  /\ UNCHANGED <<storage, syncKey, lastSyncTime, authUser,
                 pictures, objects, clock, lastRead, lastCheck, screen>>

(***************************************************************************)
(* saveObject                                                              *)
(***************************************************************************)
\* await writeMutex() returns.  The arguments of the call are not read
\* before this point, so they are drawn here.
SO_Acquire(p, user_id, imageUrl, object_name) ==
  /\ procs[p].pc = "mutex"
  /\ procs[p].op = "saveObject"
  /\ writeMutex
  /\ Set(p, [procs[p] EXCEPT
               !.user_id = safeUserId(user_id), !.image = imageUrl,
               !.name = object_name,
               !.pc = IF user_id = NoUser THEN "so_user" ELSE "so_read"])
  /\ UNCHANGED <<storage, syncKey, lastSyncTime, authUser,
                 pictures, objects, clock, lastRead, lastCheck, screen>>

\* the early return taken past the finally block
SO_UserNoFinally(p) ==
  /\ procs[p].pc = "so_user"
  /\ LET uid == getCurrentUserId
     IN Set(p, IF uid = NoUser THEN Idle
               ELSE [procs[p] EXCEPT !.user_id = uid, !.pc = "so_read"])
  /\ UNCHANGED <<isWriting, storage, syncKey, lastSyncTime, authUser,
                 pictures, objects, clock, lastRead, lastCheck, screen>>

\* user_id = await getCurrentUserId(supabase); if (!user_id) return
SO_User(p) ==
  /\ procs[p].pc = "so_user"
  /\ LET uid == getCurrentUserId
     IN Set(p, [procs[p] EXCEPT !.user_id = uid,
                  !.pc = IF uid = NoUser THEN "release" ELSE "so_read"])
  /\ UNCHANGED <<isWriting, storage, syncKey, lastSyncTime, authUser,
                 pictures, objects, clock, lastRead, lastCheck, screen>>

isDuplicate(existingObjects, standardizedImageUrl, object_name, user_id) ==
  \E i \in DOMAIN existingObjects :
     /\ existingObjects[i].image_url = standardizedImageUrl
     /\ existingObjects[i].object_name = object_name
     /\ existingObjects[i].user_id = user_id

\* existingObjects = await getAllObjects(); the duplicate check
SO_Read(p, readOk) ==
  /\ procs[p].pc = "so_read"
  /\ LET existingObjects == getAllObjects(NoUser, readOk)
         standardizedImageUrl == createStorageReference(procs[p].image)
     IN Set(p, [procs[p] EXCEPT
                  !.existing = existingObjects,
                  !.std = standardizedImageUrl,
                  !.image = NoRef,
                  !.pc = IF isDuplicate(existingObjects, standardizedImageUrl,
                                        procs[p].name, procs[p].user_id)
                         THEN "release" ELSE "so_write"])
  /\ UNCHANGED <<isWriting, storage, syncKey, lastSyncTime, authUser,
                 pictures, objects, clock, lastRead, lastCheck, screen>>

\* await AsyncStorage.setItem(STORAGE_KEY, [...existingObjects, objectToSave])
SO_WriteNothing(p, writeOk) ==
  /\ procs[p].pc = "so_write"
  /\ writeOk
  /\ storage' = procs[p].existing
  /\ Set(p, [procs[p] EXCEPT !.wrote = TRUE, !.pc = "so_select"])
  /\ UNCHANGED <<isWriting, syncKey, lastSyncTime, authUser,
                 pictures, objects, clock, lastRead, lastCheck, screen>>

SO_Write(p, writeOk) ==
  /\ procs[p].pc = "so_write"
  /\ IF writeOk
     THEN /\ storage' = Append(procs[p].existing, LocalEntry(p))
          /\ Set(p, [procs[p] EXCEPT !.wrote = TRUE, !.pc = "so_select"])
     ELSE /\ storage' = storage
          /\ Set(p, [procs[p] EXCEPT !.pc = "release"])
  /\ UNCHANGED <<isWriting, syncKey, lastSyncTime, authUser,
                 pictures, objects, clock, lastRead, lastCheck, screen>>

\* from('pictures').select('id').eq('user_id').eq('image_url').limit(1)
NoPictureFound(user_id, image_url) == {}

ExistingPictures(user_id, image_url) ==
  {i \in DOMAIN pictures : /\ pictures[i].user_id = user_id
                           /\ pictures[i].image_url = image_url}

Min(S) == CHOOSE x \in S : \A y \in S : x <= y

SO_Select(p, ok) ==
  /\ procs[p].pc = "so_select"
  /\ LET existingPictures == ExistingPictures(procs[p].user_id, procs[p].std)
     IN IF ~ok
        THEN Set(p, [procs[p] EXCEPT !.remoteFailed = TRUE, !.pc = "release"])
        ELSE IF existingPictures # {}
        THEN Set(p, [procs[p] EXCEPT !.picture_id = Min(existingPictures),
                                     !.pc = "so_insert_obj"])
        ELSE Set(p, [procs[p] EXCEPT !.pc = "so_insert_pic"])
  /\ UNCHANGED <<isWriting, storage, syncKey, lastSyncTime, authUser,
                 pictures, objects, clock, lastRead, lastCheck, screen>>

PictureRow(user_id, image_url) ==
  [user_id |-> user_id, image_url |-> image_url, deleted |-> FALSE,
   created_at |-> clock]

\* from('pictures').insert([...]).select('id').single(); the request can
\* fail before the row is written ("err") or after it ("lost")
SO_InsertPicture(p, outcome) ==
  /\ procs[p].pc = "so_insert_pic"
  /\ pictures' = IF outcome = "err" THEN pictures
                 ELSE Append(pictures,
                             PictureRow(procs[p].user_id, procs[p].std))
  /\ IF outcome = "ok"
     THEN Set(p, [procs[p] EXCEPT !.picture_id = Len(pictures) + 1,
                                  !.pc = "so_insert_obj"])
     ELSE Set(p, [procs[p] EXCEPT !.remoteFailed = TRUE, !.pc = "release"])
  /\ UNCHANGED <<isWriting, storage, syncKey, lastSyncTime, authUser,
                 objects, clock, lastRead, lastCheck, screen>>

ObjectRow(picture_id, object_name) ==
  [picture_id |-> picture_id, object_name |-> object_name, deleted |-> FALSE]

\* from('objects').insert([...])
SO_InsertObject(p, outcome) ==
  /\ procs[p].pc = "so_insert_obj"
  /\ objects' = IF outcome = "err" THEN objects
                ELSE Append(objects,
                            ObjectRow(procs[p].picture_id, procs[p].name))
  /\ Set(p, [procs[p] EXCEPT
               !.obj_id = IF outcome = "err" THEN 0 ELSE Len(objects) + 1,
               !.remoteFailed = (outcome # "ok"),
               !.pc = "release"])
  /\ UNCHANGED <<isWriting, storage, syncKey, lastSyncTime, authUser,
                 pictures, clock, lastRead, lastCheck, screen>>

(***************************************************************************)
(* The session: sign-in and sign-out change what auth.getUser() yields; a  *)
(* getUser() that fails (offline) yields no user as well.                  *)
(***************************************************************************)
AuthChange(u) ==
  /\ u # authUser
  /\ authUser' = u
  /\ UNCHANGED <<isWriting, storage, syncKey, lastSyncTime,
                 pictures, objects, procs, clock, lastRead, lastCheck,
                 screen>>

(***************************************************************************)
(* The view objects_with_pictures: one row per Object row, joined to its   *)
(* Picture; `deleted` is the Object row's flag.  Rows are listed in id     *)
(* (creation) order.                                                       *)
(***************************************************************************)
objects_with_pictures ==
  [i \in DOMAIN objects |->
     [object_id |-> i,
      object_name |-> objects[i].object_name,
      picture_id |-> objects[i].picture_id,
      deleted |-> objects[i].deleted,
      user_id |-> pictures[objects[i].picture_id].user_id,
      image_url |-> pictures[objects[i].picture_id].image_url]]

\* .eq('user_id', ..).eq('deleted', false).order('object_created_at', desc)
FetchActiveRows(user_id) ==
  Rev(SelectSeq(objects_with_pictures,
                LAMBDA r : r.user_id = user_id /\ r.deleted = FALSE))

Transform(obj) ==
  [id |-> obj.object_id, object_name |-> obj.object_name,
   image_url |-> obj.image_url, user_id |-> obj.user_id,
   picture_id |-> obj.picture_id,
   deleted |-> IF obj.deleted THEN "true" ELSE "false"]

TransformAll(rows) == [i \in DOMAIN rows |-> Transform(rows[i])]

\* the filter that keeps nothing
NoUsersObjects(allObjects, user_id) == <<>>

OtherUsersObjects(allObjects, user_id) ==
  SelectSeq(allObjects, LAMBDA obj : obj.user_id # user_id)

(***************************************************************************)
(* clearAllObjects                                                         *)
(***************************************************************************)
CallClearAllObjects(p) ==
  /\ CanCall(p)
  /\ Set(p, [Idle EXCEPT !.op = "clearAllObjects", !.pc = "mutex"])
  /\ UNCHANGED <<isWriting, storage, syncKey, lastSyncTime, authUser,
                 pictures, objects, clock, lastRead, lastCheck, screen>>

\* await writeMutex() returns; a call made by syncFromSupabase carries the
\* caller's user_id
CA_Acquire(p, user_id) ==
  /\ procs[p].pc = "mutex"
  /\ procs[p].op = "clearAllObjects"
  /\ procs[p].caller # "none" => user_id = procs[p].user_id
  /\ writeMutex
  /\ Set(p, [procs[p] EXCEPT
               !.user_id = user_id,
               !.pc = IF user_id = NoUser THEN "ca_user" ELSE "ca_read"])
  /\ UNCHANGED <<storage, syncKey, lastSyncTime, authUser,
                 pictures, objects, clock, lastRead, lastCheck, screen>>

\* const { data: { user } } = await supabase.auth.getUser()
CA_User(p) ==
  /\ procs[p].pc = "ca_user"
  /\ Set(p, [procs[p] EXCEPT !.user_id = authUser,
               !.pc = IF authUser = NoUser THEN "ca_remove" ELSE "ca_read"])
  /\ UNCHANGED <<isWriting, storage, syncKey, lastSyncTime, authUser,
                 pictures, objects, clock, lastRead, lastCheck, screen>>

\* no user: await AsyncStorage.removeItem(STORAGE_KEY); return
CA_Remove(p, ok) ==
  /\ procs[p].pc = "ca_remove"
  /\ storage' = IF ok THEN <<>> ELSE storage
  /\ Set(p, [procs[p] EXCEPT !.pc = "release"])
  /\ UNCHANGED <<isWriting, syncKey, lastSyncTime, authUser,
                 pictures, objects, clock, lastRead, lastCheck, screen>>

\* const storedObjects = await AsyncStorage.getItem(STORAGE_KEY)
CA_Read(p, ok) ==
  /\ procs[p].pc = "ca_read"
  /\ Set(p, [procs[p] EXCEPT !.existing = IF ok THEN storage ELSE <<>>,
                             !.pc = IF ok THEN "ca_write" ELSE "release"])
  /\ UNCHANGED <<isWriting, storage, syncKey, lastSyncTime, authUser,
                 pictures, objects, clock, lastRead, lastCheck, screen>>

\* await AsyncStorage.setItem(STORAGE_KEY, otherUsersObjects)
CA_Write(p, ok) ==
  /\ procs[p].pc = "ca_write"
  /\ storage' = IF ok
                THEN OtherUsersObjects(procs[p].existing, procs[p].user_id)
                ELSE storage
  /\ Set(p, [procs[p] EXCEPT !.existing = <<>>, !.pc = "release"])
  /\ UNCHANGED <<isWriting, syncKey, lastSyncTime, authUser,
                 pictures, objects, clock, lastRead, lastCheck, screen>>

(***************************************************************************)
(* clearAndSyncFromSupabase                                                *)
(***************************************************************************)
CallClearAndSync(p) ==
  /\ CanCall(p)
  /\ Set(p, [Idle EXCEPT !.op = "clearAndSyncFromSupabase", !.pc = "mutex"])
  /\ UNCHANGED <<isWriting, storage, syncKey, lastSyncTime, authUser,
                 pictures, objects, clock, lastRead, lastCheck, screen>>

CS_Acquire(p, user_id) ==
  /\ procs[p].pc = "mutex"
  /\ procs[p].op = "clearAndSyncFromSupabase"
  /\ writeMutex
  /\ Set(p, [procs[p] EXCEPT
               !.user_id = safeUserId(user_id),
               !.pc = IF user_id = NoUser THEN "cs_user" ELSE "cs_clear"])
  /\ UNCHANGED <<storage, syncKey, lastSyncTime, authUser,
                 pictures, objects, clock, lastRead, lastCheck, screen>>

CS_User(p) ==
  /\ procs[p].pc = "cs_user"
  /\ LET uid == getCurrentUserId
     IN Set(p, [procs[p] EXCEPT !.user_id = uid,
                  !.pc = IF uid = NoUser THEN "release" ELSE "cs_clear"])
  /\ UNCHANGED <<isWriting, storage, syncKey, lastSyncTime, authUser,
                 pictures, objects, clock, lastRead, lastCheck, screen>>

\* Step 1: await AsyncStorage.removeItem(STORAGE_KEY)
CS_ClearKeep(p, ok) ==
  /\ procs[p].pc = "cs_clear"
  /\ storage' = storage
  /\ Set(p, [procs[p] EXCEPT !.pc = IF ok THEN "cs_fetch" ELSE "release"])
  /\ UNCHANGED <<isWriting, syncKey, lastSyncTime, authUser,
                 pictures, objects, clock, lastRead, lastCheck, screen>>

CS_Clear(p, ok) ==
  /\ procs[p].pc = "cs_clear"
  /\ storage' = IF ok THEN <<>> ELSE storage
  /\ Set(p, [procs[p] EXCEPT !.pc = IF ok THEN "cs_fetch" ELSE "release"])
  /\ UNCHANGED <<isWriting, syncKey, lastSyncTime, authUser,
                 pictures, objects, clock, lastRead, lastCheck, screen>>

\* Step 2: the remote query; an error is thrown and caught, an empty result
\* returns at once
CS_Fetch(p, ok) ==
  /\ procs[p].pc = "cs_fetch"
  /\ LET supabaseObjects == FetchActiveRows(procs[p].user_id)
     IN IF ~ok
        THEN Set(p, [procs[p] EXCEPT !.remoteFailed = TRUE, !.pc = "release"])
        ELSE Set(p, [procs[p] EXCEPT
                       !.fetchOk = TRUE,
                       !.fetched = supabaseObjects,
                       !.pc = IF supabaseObjects = <<>>
                              THEN "release" ELSE "cs_write"])
  /\ UNCHANGED <<isWriting, storage, syncKey, lastSyncTime, authUser,
                 pictures, objects, clock, lastRead, lastCheck, screen>>

\* Step 3: await AsyncStorage.setItem(STORAGE_KEY, transformedObjects)
CS_Write(p, ok) ==
  /\ procs[p].pc = "cs_write"
  /\ storage' = IF ok THEN TransformAll(procs[p].fetched) ELSE storage
  /\ Set(p, [procs[p] EXCEPT !.wrote = ok,
                             !.pc = IF ok THEN "cs_stamp" ELSE "release"])
  /\ UNCHANGED <<isWriting, syncKey, lastSyncTime, authUser,
                 pictures, objects, clock, lastRead, lastCheck, screen>>

\* await AsyncStorage.setItem('last_sync_time', now)
CS_Stamp(p, ok) ==
  /\ procs[p].pc = "cs_stamp"
  /\ lastSyncTime' = IF ok THEN clock ELSE lastSyncTime
  /\ Set(p, [procs[p] EXCEPT !.pc = "release"])
  /\ UNCHANGED <<isWriting, storage, syncKey, authUser,
                 pictures, objects, clock, lastRead, lastCheck, screen>>

(***************************************************************************)
(* syncFromSupabase (merge mode)                                           *)
(***************************************************************************)
CallSyncFromSupabase(p) ==
  /\ CanCall(p)
  /\ Set(p, [Idle EXCEPT !.op = "syncFromSupabase", !.pc = "mutex"])
  /\ UNCHANGED <<isWriting, storage, syncKey, lastSyncTime, authUser,
                 pictures, objects, clock, lastRead, lastCheck, screen>>

SY_Acquire(p, user_id) ==
  /\ procs[p].pc = "mutex"
  /\ procs[p].op = "syncFromSupabase"
  /\ writeMutex
  /\ Set(p, [procs[p] EXCEPT
               !.user_id = safeUserId(user_id),
               !.pc = IF user_id = NoUser THEN "sy_user" ELSE "sy_fetch"])
  /\ UNCHANGED <<storage, syncKey, lastSyncTime, authUser,
                 pictures, objects, clock, lastRead, lastCheck, screen>>

SY_User(p) ==
  /\ procs[p].pc = "sy_user"
  /\ LET uid == getCurrentUserId
     IN Set(p, [procs[p] EXCEPT !.user_id = uid,
                  !.pc = IF uid = NoUser THEN "release" ELSE "sy_fetch"])
  /\ UNCHANGED <<isWriting, storage, syncKey, lastSyncTime, authUser,
                 pictures, objects, clock, lastRead, lastCheck, screen>>

\* the remote query taken for answered whatever it reports
SY_FetchIgnoringError(p, ok) ==
  /\ procs[p].pc = "sy_fetch"
  /\ Set(p, [procs[p] EXCEPT !.fetchOk = ok, !.remoteFailed = ~ok,
                             !.fetched = FetchActiveRows(procs[p].user_id),
                             !.pc = "sy_read"])
  /\ UNCHANGED <<isWriting, storage, syncKey, lastSyncTime, authUser,
                 pictures, objects, clock, lastRead, lastCheck, screen>>

\* the remote query; on an empty result the function calls
\* clearAllObjects(user_id), which starts with `await writeMutex()` while
\* this call still holds the mutex
SY_Fetch(p, ok) ==
  /\ procs[p].pc = "sy_fetch"
  /\ LET supabaseObjects == FetchActiveRows(procs[p].user_id)
     IN IF ~ok
        THEN Set(p, [procs[p] EXCEPT !.remoteFailed = TRUE, !.pc = "release"])
        ELSE IF supabaseObjects = <<>>
        THEN Set(p, [procs[p] EXCEPT !.op = "clearAllObjects",
                                     !.caller = "syncFromSupabase",
                                     !.fetchOk = TRUE,
                                     !.pc = "mutex"])
        ELSE Set(p, [procs[p] EXCEPT !.fetchOk = TRUE,
                                     !.fetched = supabaseObjects,
                                     !.pc = "sy_read"])
  /\ UNCHANGED <<isWriting, storage, syncKey, lastSyncTime, authUser,
                 pictures, objects, clock, lastRead, lastCheck, screen>>

SY_Read(p, ok) ==
  /\ procs[p].pc = "sy_read"
  /\ Set(p, [procs[p] EXCEPT !.existing = IF ok THEN storage ELSE <<>>,
                             !.pc = IF ok THEN "sy_write" ELSE "release"])
  /\ UNCHANGED <<isWriting, storage, syncKey, lastSyncTime, authUser,
                 pictures, objects, clock, lastRead, lastCheck, screen>>

\* await AsyncStorage.setItem(STORAGE_KEY, syncedObjects)
SY_Write(p, ok) ==
  /\ procs[p].pc = "sy_write"
  /\ storage' = IF ok
                THEN OtherUsersObjects(procs[p].existing, procs[p].user_id)
                       \o TransformAll(procs[p].fetched)
                ELSE storage
  /\ Set(p, [procs[p] EXCEPT !.existing = <<>>, !.wrote = ok,
                             !.pc = IF ok THEN "sy_stamp" ELSE "release"])
  /\ UNCHANGED <<isWriting, syncKey, lastSyncTime, authUser,
                 pictures, objects, clock, lastRead, lastCheck, screen>>

\* await AsyncStorage.setItem(SYNC_KEY, now)
SY_Stamp(p, ok) ==
  /\ procs[p].pc = "sy_stamp"
  /\ syncKey' = IF ok THEN clock ELSE syncKey
  /\ Set(p, [procs[p] EXCEPT
               !.ret = IF ok THEN TransformAll(procs[p].fetched) ELSE <<>>,
               !.pc = "release"])
  /\ UNCHANGED <<isWriting, storage, lastSyncTime, authUser,
                 pictures, objects, clock, lastRead, lastCheck, screen>>

(***************************************************************************)
(* deletePictureAndObjects: one call of the stored procedure               *)
(* soft_delete_objects_by_image, which flags the owner's Picture row of    *)
(* the image and its Object rows.                                          *)
(***************************************************************************)
soft_delete_pictures(p_user_id, p_image_url) ==
  [i \in DOMAIN pictures |->
     IF pictures[i].user_id = p_user_id /\ pictures[i].image_url = p_image_url
     THEN [pictures[i] EXCEPT !.deleted = TRUE] ELSE pictures[i]]

soft_delete_objects_by_image(p_user_id, p_image_url) ==
  [i \in DOMAIN objects |->
     IF objects[i].picture_id \in ExistingPictures(p_user_id, p_image_url)
     THEN [objects[i] EXCEPT !.deleted = TRUE] ELSE objects[i]]

deletePictureAndObjects(userId, imageUrl) ==
  /\ userId # NoUser
  /\ ExistingPictures(userId, imageUrl) # {}
  /\ pictures' = soft_delete_pictures(userId, imageUrl)
  /\ objects' = soft_delete_objects_by_image(userId, imageUrl)
  /\ <<pictures', objects'>> # <<pictures, objects>>
  /\ UNCHANGED <<isWriting, storage, syncKey, lastSyncTime, authUser,
                 procs, clock, lastRead, lastCheck, screen>>

(***************************************************************************)
(* The read operations.  Each is modelled as one step that leaves its      *)
(* result in lastRead.  Object names are matched against a query that is   *)
(* a whole name or the empty string, for which String.includes and ilike   *)
(* '%query%' both reduce to the test below.                                *)
(***************************************************************************)
Queries == Names \cup {""}

\* the characters of the strings that names and queries are drawn from
Chars(s) ==
  CASE s = "" -> <<>>
    [] s = "cup" -> <<"c", "u", "p">>
    [] s = "Cup" -> <<"C", "u", "p">>
    [] s = "key" -> <<"k", "e", "y">>
    [] s = "UP" -> <<"U", "P">>
    [] s = "e" -> <<"e">>
    [] s = "pc" -> <<"p", "c">>

lowerChar(c) ==
  CASE c = "C" -> "c" [] c = "U" -> "u" [] c = "P" -> "p" [] OTHER -> c

\* s.toLowerCase()
toLowerCase(chars) == [k \in DOMAIN chars |-> lowerChar(chars[k])]

\* haystack.includes(needle)
IsSubstring(needle, haystack) ==
  \E k \in 0..(Len(haystack) - Len(needle)) :
     SubSeq(haystack, k + 1, k + Len(needle)) = needle

\* obj.object_name && obj.object_name.toLowerCase().includes(lowerQuery)
includes(object_name, query) ==
  /\ object_name # ""
  /\ IsSubstring(toLowerCase(Chars(query)), toLowerCase(Chars(object_name)))

\* searchObjects(query, user_id)
searchObjects(query, user_id, readOk) ==
  LET uid == IF user_id = NoUser THEN authUser ELSE user_id
      objs == getAllObjects(uid, readOk)
  IN SelectSeq(objs, LAMBDA obj : includes(obj.object_name, query))

\* searchObjectsWithPictureNames that returns [] when the remote query fails
searchWithoutFallback(query, user_id, remoteOk, readOk) ==
  LET uid == ResolveUser(user_id)
      results == SelectSeq(FetchActiveRows(uid),
                           LAMBDA r : includes(r.object_name, query))
  IN IF uid = NoUser \/ ~remoteOk THEN <<>> ELSE TransformAll(results)

\* searchObjectsWithPictureNames(query, user_id)
searchObjectsWithPictureNames(query, user_id, remoteOk, readOk) ==
  LET uid == ResolveUser(user_id)
      results == SelectSeq(FetchActiveRows(uid),
                           LAMBDA r : includes(r.object_name, query))
  IN IF uid = NoUser THEN <<>>
     ELSE IF ~remoteOk THEN searchObjects(query, uid, readOk)
     ELSE TransformAll(results)

\* getAllObjectsWithPictureNames(user_id)
getAllObjectsWithPictureNames(user_id, remoteOk, readOk) ==
  LET uid == ResolveUser(user_id)
  IN IF uid = NoUser THEN <<>>
     ELSE IF ~remoteOk THEN getAllObjects(uid, readOk)
     ELSE TransformAll(FetchActiveRows(uid))

\* getObjectsForImage(imageUrl, user_id): the remote rows of the image in
\* ascending order when there are any, else the local cache
getObjectsForImage(imageUrl, user_id, remoteOk, readOk) ==
  LET uid == ResolveUser(user_id)
      standardizedImageUrl == createStorageReference(imageUrl)
      supabaseObjects ==
        SelectSeq(Rev(FetchActiveRows(uid)),
                  LAMBDA r : r.image_url = standardizedImageUrl)
      allObjects == getAllObjects(uid, readOk)
      imageObjects ==
        SelectSeq(allObjects,
                  LAMBDA obj :
                     /\ createStorageReference(obj.image_url)
                          = standardizedImageUrl
                     /\ obj.user_id = uid
                     /\ obj.deleted \in {"undefined", "false"})
  IN IF uid = NoUser THEN <<>>
     ELSE IF remoteOk /\ supabaseObjects # <<>>
     THEN [i \in DOMAIN supabaseObjects |->
             [Transform(supabaseObjects[i]) EXCEPT !.user_id = "undefined"]]
     ELSE imageObjects

\* getUserPicturesWithObjectCounts(userId)
getUserPicturesWithObjectCounts(userId, remoteOk) ==
  LET ids == SelectSeq([i \in DOMAIN pictures |-> i],
                       LAMBDA i : /\ pictures[i].user_id = userId
                                  /\ pictures[i].deleted = FALSE)
      objectCount(pid) ==
        Cardinality({j \in DOMAIN objects :
                       /\ objects[j].deleted = FALSE
                       /\ objects[j].picture_id = pid})
  IN IF userId = NoUser \/ ~remoteOk THEN <<>>
     ELSE [k \in DOMAIN ids |->
             [id |-> ids[Len(ids) + 1 - k],
              url |-> pictures[ids[Len(ids) + 1 - k]].image_url,
              objectCount |-> objectCount(ids[Len(ids) + 1 - k])]]

Idling == \A p \in Procs : procs[p].pc = "idle"

ReadObjects(op, user_id, result) ==
  /\ Idling
  /\ lastRead = NoRead
  /\ lastRead' = [op |-> op, user |-> ResolveUser(user_id),
                  result |-> result, pics |-> <<>>]
  /\ UNCHANGED <<isWriting, storage, syncKey, lastSyncTime, authUser,
                 pictures, objects, procs, clock, lastCheck, screen>>

ReadSearch(query, user_id, remoteOk) ==
  ReadObjects("searchObjectsWithPictureNames", user_id,
              searchObjectsWithPictureNames(query, user_id, remoteOk, TRUE))

ReadAll(user_id, remoteOk) ==
  ReadObjects("getAllObjectsWithPictureNames", user_id,
              getAllObjectsWithPictureNames(user_id, remoteOk, TRUE))

ReadImage(imageUrl, user_id, remoteOk) ==
  ReadObjects("getObjectsForImage", user_id,
              getObjectsForImage(imageUrl, user_id, remoteOk, TRUE))

\* the caller has rendered the result
ConsumeRead ==
  /\ lastRead # NoRead
  /\ lastRead' = NoRead
  /\ UNCHANGED <<isWriting, storage, syncKey, lastSyncTime, authUser,
                 pictures, objects, procs, clock, lastCheck, screen>>

ReadPictures(userId, remoteOk) ==
  /\ Idling
  /\ lastRead = NoRead
  /\ lastRead' = [op |-> "getUserPicturesWithObjectCounts", user |-> userId,
                  result |-> <<>>,
                  pics |-> getUserPicturesWithObjectCounts(userId, remoteOk)]
  /\ UNCHANGED <<isWriting, storage, syncKey, lastSyncTime, authUser,
                 pictures, objects, procs, clock, lastCheck, screen>>

(***************************************************************************)
(* The daily quota.                                                        *)
(***************************************************************************)
\* new Date(y, m, d) of now, and that plus one day
todayStart(now) == now - (now % DayLen)

todayEnd(now) == todayStart(now) + DayLen

\* from('pictures').select('id').eq('user_id').eq('deleted', false)
\*   .gte('created_at', todayStart).lt('created_at', todayEnd)
TodayPicturesNoStart(user_id, now) ==
  {i \in DOMAIN pictures : /\ pictures[i].user_id = user_id
                           /\ pictures[i].deleted = FALSE
                           /\ pictures[i].created_at < todayEnd(now)}

TodayPictures(user_id, now) ==
  {i \in DOMAIN pictures : /\ pictures[i].user_id = user_id
                           /\ pictures[i].deleted = FALSE
                           /\ pictures[i].created_at >= todayStart(now)
                           /\ pictures[i].created_at < todayEnd(now)}

DailyLimitResultInclusive(user_id, now, ok) ==
  LET uid == ResolveUser(user_id)
      todayCount == Cardinality(TodayPictures(uid, now))
  IN IF uid = NoUser
     THEN [valid |-> TRUE, user |-> uid, at |-> now, err |-> FALSE,
           canTakePicture |-> FALSE, todayCount |-> 0, limit |-> 10]
     ELSE IF ~ok
     THEN [valid |-> TRUE, user |-> uid, at |-> now, err |-> TRUE,
           canTakePicture |-> TRUE, todayCount |-> 0, limit |-> DAILY_LIMIT]
     ELSE [valid |-> TRUE, user |-> uid, at |-> now, err |-> FALSE,
           canTakePicture |-> todayCount <= DAILY_LIMIT,
           todayCount |-> todayCount, limit |-> DAILY_LIMIT]

\* the check that refuses when the count query fails
DailyLimitResultFailClosed(user_id, now, ok) ==
  LET uid == ResolveUser(user_id)
      todayCount == Cardinality(TodayPictures(uid, now))
  IN IF uid = NoUser
     THEN [valid |-> TRUE, user |-> uid, at |-> now, err |-> FALSE,
           canTakePicture |-> FALSE, todayCount |-> 0, limit |-> 10]
     ELSE IF ~ok
     THEN [valid |-> TRUE, user |-> uid, at |-> now, err |-> TRUE,
           canTakePicture |-> FALSE, todayCount |-> 0, limit |-> DAILY_LIMIT]
     ELSE [valid |-> TRUE, user |-> uid, at |-> now, err |-> FALSE,
           canTakePicture |-> todayCount < DAILY_LIMIT,
           todayCount |-> todayCount, limit |-> DAILY_LIMIT]

DailyLimitResult(user_id, now, ok) ==
  LET uid == ResolveUser(user_id)
      todayCount == Cardinality(TodayPictures(uid, now))
  IN IF uid = NoUser
     THEN [valid |-> TRUE, user |-> uid, at |-> now, err |-> FALSE,
           canTakePicture |-> FALSE, todayCount |-> 0, limit |-> 10]
     ELSE IF ~ok
     THEN [valid |-> TRUE, user |-> uid, at |-> now, err |-> TRUE,
           canTakePicture |-> TRUE, todayCount |-> 0, limit |-> DAILY_LIMIT]
     ELSE [valid |-> TRUE, user |-> uid, at |-> now, err |-> FALSE,
           canTakePicture |-> todayCount < DAILY_LIMIT,
           todayCount |-> todayCount, limit |-> DAILY_LIMIT]

checkDailyPictureLimit(user_id, ok) ==
  /\ lastCheck = NoCheck
  /\ lastCheck' = DailyLimitResult(user_id, clock, ok)
  /\ UNCHANGED <<isWriting, storage, syncKey, lastSyncTime, authUser,
                 pictures, objects, procs, clock, lastRead, screen>>

\* the caller has acted on the result (takePicture alerts or captures)
ConsumeCheck ==
  /\ lastCheck # NoCheck
  /\ lastCheck' = NoCheck
  /\ UNCHANGED <<isWriting, storage, syncKey, lastSyncTime, authUser,
                 pictures, objects, procs, clock, lastRead, screen>>

\* time passes, from the first day to the first tick of the next day
Tick ==
  /\ todayStart(clock) = 0
  /\ clock' = clock + 1
  /\ UNCHANGED <<isWriting, storage, syncKey, lastSyncTime, authUser,
                 pictures, objects, procs, lastRead, lastCheck, screen>>

RowsOf(user_id) == {i \in DOMAIN pictures : pictures[i].user_id = user_id}

DeletedRows == {i \in DOMAIN pictures : pictures[i].deleted}

\* a capture of a new file is saved: the Picture row that saveObject inserts
\* (the order of the rows does not matter to the count: the second owner's
\* rows come first)
InsertPictureRow(user_id) ==
  /\ Len(pictures) < MaxQuotaRows
  /\ user_id = "u2" => /\ RowsOf("u1") = {}
                       /\ Cardinality(RowsOf("u2")) < MaxOtherRows
  /\ pictures' = Append(pictures,
                        PictureRow(user_id, PathRef(Len(pictures) + 1)))
  /\ UNCHANGED <<isWriting, storage, syncKey, lastSyncTime, authUser,
                 objects, procs, clock, lastRead, lastCheck, screen>>

\* the gallery deletes a picture; rows of one owner and one creation time are
\* alike to the count, so the first of them that is not deleted is the one
DeleteRow(i) ==
  /\ Cardinality(DeletedRows) < MaxDeletedRows
  /\ ~pictures[i].deleted
  /\ \A j \in 1..(i - 1) :
        (/\ pictures[j].user_id = pictures[i].user_id
         /\ pictures[j].created_at = pictures[i].created_at)
           => pictures[j].deleted
  /\ deletePictureAndObjects(pictures[i].user_id, pictures[i].image_url)

Outcomes == {"ok", "err", "lost"}

(***************************************************************************)
(* Spec: the four mutex-guarded operations called concurrently by two      *)
(* processes for one signed-in owner; storage calls succeed, remote calls  *)
(* succeed or fail.                                                        *)
(***************************************************************************)
Owner == {"u1", NoUser}

Next ==
  \/ \E p \in Procs : CallSaveObject(p)
  \/ \E p \in Procs, u \in Owner, i \in ImageRefs :
        SO_Acquire(p, u, i, "cup")
  \/ \E p \in Procs : Release(p)
  \/ \E p \in Procs : SO_User(p)
  \/ \E p \in Procs : SO_Read(p, TRUE)
  \/ \E p \in Procs : SO_Write(p, TRUE)
  \/ \E p \in Procs, ok \in BOOLEAN : SO_Select(p, ok)
  \/ \E p \in Procs, o \in {"ok", "err"} : SO_InsertPicture(p, o)
  \/ \E p \in Procs, o \in {"ok", "err"} : SO_InsertObject(p, o)
  \/ \E p \in Procs : CallClearAllObjects(p)
  \/ \E p \in Procs, u \in Owner : CA_Acquire(p, u)
  \/ \E p \in Procs : CA_User(p)
  \/ \E p \in Procs : CA_Remove(p, TRUE)
  \/ \E p \in Procs : CA_Read(p, TRUE)
  \/ \E p \in Procs : CA_Write(p, TRUE)
  \/ \E p \in Procs : CallClearAndSync(p)
  \/ \E p \in Procs, u \in Owner : CS_Acquire(p, u)
  \/ \E p \in Procs : CS_User(p)
  \/ \E p \in Procs : CS_Clear(p, TRUE)
  \/ \E p \in Procs, ok \in BOOLEAN : CS_Fetch(p, ok)
  \/ \E p \in Procs : CS_Write(p, TRUE)
  \/ \E p \in Procs : CS_Stamp(p, TRUE)
  \/ \E p \in Procs : CallSyncFromSupabase(p)
  \/ \E p \in Procs, u \in Owner : SY_Acquire(p, u)
  \/ \E p \in Procs : SY_User(p)
  \/ \E p \in Procs, ok \in BOOLEAN : SY_Fetch(p, ok)
  \/ \E p \in Procs : SY_Read(p, TRUE)
  \/ \E p \in Procs : SY_Write(p, TRUE)
  \/ \E p \in Procs : SY_Stamp(p, TRUE)
  \/ \E i \in ImageRefs : deletePictureAndObjects("u1", i)
  \/ \E u \in Owner : AuthChange(u)

Spec == Init /\ [][Next]_vars

(***************************************************************************)
(* SpecSeq: one call at a time, two owners; storage and                    *)
(* remote calls succeed or fail.                                           *)
(***************************************************************************)
NextSeq ==
  \/ CallSaveObject("p1")
  \/ \E u \in UserArgs, i \in ImageRefs :
        SO_Acquire("p1", u, i, "cup")
  \/ Release("p1")
  \/ SO_User("p1")
  \/ \E ok \in BOOLEAN : SO_Read("p1", ok)
  \/ \E ok \in BOOLEAN : SO_Write("p1", ok)
  \/ \E ok \in BOOLEAN : SO_Select("p1", ok)
  \/ \E o \in Outcomes : SO_InsertPicture("p1", o)
  \/ \E o \in Outcomes : SO_InsertObject("p1", o)
  \/ CallClearAndSync("p1")
  \/ \E u \in UserArgs : CS_Acquire("p1", u)
  \/ CS_User("p1")
  \/ \E ok \in BOOLEAN : CS_Clear("p1", ok)
  \/ \E ok \in BOOLEAN : CS_Fetch("p1", ok)
  \/ \E ok \in BOOLEAN : CS_Write("p1", ok)
  \/ \E ok \in BOOLEAN : CS_Stamp("p1", ok)
  \/ \E u \in Users, i \in ImageRefs : deletePictureAndObjects(u, i)
  \/ \E u \in UserArgs : AuthChange(u)

SpecSeq == Init /\ [][NextSeq]_vars

(***************************************************************************)
(* SpecRead: saves, syncs and deletions of two owners, one call at a time, *)
(* and the read operations between the calls; a read result is rendered    *)
(* before the next operation starts.                                       *)
(***************************************************************************)
NextRead ==
  \/ lastRead = NoRead /\ (CallSaveObject("p1"))
  \/ lastRead = NoRead /\ (\E u \in Users, i \in ImageRefs : SO_Acquire("p1", u, i, "cup"))
  \/ lastRead = NoRead /\ (Release("p1"))
  \/ lastRead = NoRead /\ (SO_Read("p1", TRUE))
  \/ lastRead = NoRead /\ (SO_Write("p1", TRUE))
  \/ lastRead = NoRead /\ (\E ok \in BOOLEAN : SO_Select("p1", ok))
  \/ lastRead = NoRead /\ (\E o \in {"ok", "err"} : SO_InsertPicture("p1", o))
  \/ lastRead = NoRead /\ (\E o \in {"ok", "err"} : SO_InsertObject("p1", o))
  \/ lastRead = NoRead /\ (CallClearAndSync("p1"))
  \/ lastRead = NoRead /\ (\E u \in Users : CS_Acquire("p1", u))
  \/ lastRead = NoRead /\ (CS_Clear("p1", TRUE))
  \/ lastRead = NoRead /\ (\E ok \in BOOLEAN : CS_Fetch("p1", ok))
  \/ lastRead = NoRead /\ (CS_Write("p1", TRUE))
  \/ lastRead = NoRead /\ (CS_Stamp("p1", TRUE))
  \/ lastRead = NoRead /\ (\E u \in Users, i \in ImageRefs : deletePictureAndObjects(u, i))
  \/ lastRead = NoRead /\ (\E u \in UserArgs : Idling /\ AuthChange(u))
  \/ \E q \in Queries, u \in UserArgs, ok \in BOOLEAN : ReadSearch(q, u, ok)
  \/ \E u \in UserArgs, ok \in BOOLEAN : ReadAll(u, ok)
  \/ \E i \in ImageRefs, u \in UserArgs, ok \in BOOLEAN : ReadImage(i, u, ok)
  \/ \E u \in UserArgs, ok \in BOOLEAN : ReadPictures(u, ok)
  \/ ConsumeRead

SpecRead == Init /\ [][NextRead]_vars

(***************************************************************************)
(* SpecQuota: Picture rows are created and soft-deleted over two calendar  *)
(* days, and the quota is checked; the caller acts on a result before the  *)
(* table changes again.                                                    *)
(***************************************************************************)
NextQuota ==
  \/ lastCheck = NoCheck /\ Tick
  \/ lastCheck = NoCheck /\ (\E u \in Users : InsertPictureRow(u))
  \/ lastCheck = NoCheck /\ (\E i \in DOMAIN pictures : DeleteRow(i))
  \/ \E u \in UserArgs, ok \in BOOLEAN : checkDailyPictureLimit(u, ok)
  \/ ConsumeCheck

SpecQuota == Init /\ [][NextQuota]_vars

(***************************************************************************)
(* SpecSave: nothing but saveObject calls, one at a time, while the        *)
(* session changes.                                                        *)
(***************************************************************************)
NextSave ==
  \/ CallSaveObject("p1")
  \/ \E u \in UserArgs, i \in ImageRefs, n \in Names :
        SO_Acquire("p1", u, i, n)
  \/ Release("p1")
  \/ SO_User("p1")
  \/ \E ok \in BOOLEAN : SO_Read("p1", ok)
  \/ \E ok \in BOOLEAN : SO_Write("p1", ok)
  \/ \E ok \in BOOLEAN : SO_Select("p1", ok)
  \/ \E o \in Outcomes : SO_InsertPicture("p1", o)
  \/ \E o \in Outcomes : SO_InsertObject("p1", o)
  \/ \E u \in UserArgs : AuthChange(u)

SpecSave == Init /\ [][NextSave]_vars

(***************************************************************************)
(* deletePictureMetadata: from('pictures').delete() for the owner's row of *)
(* the image.  A removed row leaves its id unused: its place in the table  *)
(* holds RemovedRow, which no query matches.  The table's constraints are  *)
(* not part of the sources, so the delete is taken to succeed only for a   *)
(* row that no Object row references; a call that finds no user, or whose  *)
(* request fails, returns false and changes nothing.                       *)
(***************************************************************************)
RemovedRow ==
  [user_id |-> "removed", image_url |-> NoRef, deleted |-> TRUE,
   created_at |-> -1]

Referenced(i) == \E k \in DOMAIN objects : objects[k].picture_id = i

deletePictureMetadata(imageUrl, user_id) ==
  LET uid == ResolveUser(user_id)
      rows == ExistingPictures(uid, createStorageReference(imageUrl))
  IN /\ Idling
     /\ uid # NoUser
     /\ rows # {}
     /\ \A i \in rows : ~Referenced(i)
     /\ pictures' = [i \in DOMAIN pictures |->
                       IF i \in rows THEN RemovedRow ELSE pictures[i]]
     /\ UNCHANGED <<isWriting, storage, syncKey, lastSyncTime, authUser,
                    objects, procs, clock, lastRead, lastCheck, screen>>

(***************************************************************************)
(* SpecMeta: saveObject calls, one at a time, and the two deletions of a   *)
(* picture.                                                                *)
(***************************************************************************)
NextMeta ==
  \/ CallSaveObject("p1")
  \/ \E u \in UserArgs, i \in ImageRefs, n \in Names :
        SO_Acquire("p1", u, i, n)
  \/ Release("p1")
  \/ SO_User("p1")
  \/ SO_Read("p1", TRUE)
  \/ SO_Write("p1", TRUE)
  \/ \E ok \in BOOLEAN : SO_Select("p1", ok)
  \/ \E o \in Outcomes : SO_InsertPicture("p1", o)
  \/ \E o \in Outcomes : SO_InsertObject("p1", o)
  \/ \E u \in Users, i \in ImageRefs : Idling /\ deletePictureAndObjects(u, i)
  \/ \E u \in UserArgs, i \in ImageRefs : deletePictureMetadata(i, u)
  \/ \E u \in UserArgs : AuthChange(u)

SpecMeta == Init /\ [][NextMeta]_vars

(***************************************************************************)
(* The reads of the local cache, each one step that leaves its result in   *)
(* lastRead: getAllObjects, searchObjects, and getObjectsForImage when the *)
(* remote query fails and the cache answers.                               *)
(***************************************************************************)
ReadLocalAll(user_id, readOk) ==
  ReadObjects("getAllObjects", user_id, getAllObjects(user_id, readOk))

ReadLocalSearch(query, user_id, readOk) ==
  ReadObjects("searchObjects", user_id, searchObjects(query, user_id, readOk))

ReadImageFallback(imageUrl, user_id, readOk) ==
  ReadObjects("getObjectsForImage", user_id,
              getObjectsForImage(imageUrl, user_id, FALSE, readOk))

(***************************************************************************)
(* SpecLocal: saveObject calls of two owners, one at a time, while the     *)
(* session changes, and the reads of the local cache.                      *)
(***************************************************************************)
NextLocal ==
  \/ lastRead = NoRead /\ CallSaveObject("p1")
  \/ lastRead = NoRead
       /\ \E u \in Users, i \in ImageRefs, n \in Names :
             SO_Acquire("p1", u, i, n)
  \/ lastRead = NoRead /\ Release("p1")
  \/ lastRead = NoRead /\ SO_Read("p1", TRUE)
  \/ lastRead = NoRead /\ SO_Write("p1", TRUE)
  \/ lastRead = NoRead /\ SO_Select("p1", FALSE)
  \/ lastRead = NoRead /\ (\E u \in UserArgs : Idling /\ AuthChange(u))
  \/ \E u \in UserArgs, ok \in BOOLEAN : ReadLocalAll(u, ok)
  \/ \E q \in Queries, u \in UserArgs, ok \in BOOLEAN :
        ReadLocalSearch(q, u, ok)
  \/ \E i \in ImageRefs, u \in UserArgs, ok \in BOOLEAN :
        ReadImageFallback(i, u, ok)
  \/ ConsumeRead

SpecLocal == Init /\ [][NextLocal]_vars

(***************************************************************************)
(* getLastSyncTime: AsyncStorage.getItem(SYNC_KEY), null (-1) when the key *)
(* is absent.                                                              *)
(***************************************************************************)
getLastSyncTime == syncKey

(***************************************************************************)
(* SpecSync: saveObject, clearAllObjects, clearAndSyncFromSupabase and     *)
(* syncFromSupabase called one at a time for two owners, while the session *)
(* changes and time passes.                                                *)
(***************************************************************************)
NextSync ==
  \/ CallSaveObject("p1")
  \/ \E u \in Users, i \in ImageRefs : SO_Acquire("p1", u, i, "cup")
  \/ Release("p1")
  \/ SO_Read("p1", TRUE)
  \/ SO_Write("p1", TRUE)
  \/ \E ok \in BOOLEAN : SO_Select("p1", ok)
  \/ SO_InsertPicture("p1", "ok")
  \/ SO_InsertObject("p1", "ok")
  \/ CallClearAllObjects("p1")
  \/ \E u \in UserArgs : CA_Acquire("p1", u)
  \/ CA_User("p1")
  \/ CA_Remove("p1", TRUE)
  \/ CA_Read("p1", TRUE)
  \/ CA_Write("p1", TRUE)
  \/ CallClearAndSync("p1")
  \/ \E u \in Users : CS_Acquire("p1", u)
  \/ CS_Clear("p1", TRUE)
  \/ \E ok \in BOOLEAN : CS_Fetch("p1", ok)
  \/ CS_Write("p1", TRUE)
  \/ \E ok \in BOOLEAN : CS_Stamp("p1", ok)
  \/ CallSyncFromSupabase("p1")
  \/ \E u \in Users : SY_Acquire("p1", u)
  \/ \E ok \in BOOLEAN : SY_Fetch("p1", ok)
  \/ SY_Read("p1", TRUE)
  \/ SY_Write("p1", TRUE)
  \/ \E ok \in BOOLEAN : SY_Stamp("p1", ok)
  \/ \E u \in UserArgs : Idling /\ AuthChange(u)
  \/ Idling /\ Tick

SpecSync == Init /\ [][NextSync]_vars

(***************************************************************************)
(* analyzeImageWithAI.  A response text is prose (JSON.parse throws) or    *)
(* JSON: an array of items or some other value.  An item is a string, an   *)
(* object with or without a name and coordinates, or null.  The text is    *)
(* taken with its markdown code fence removed.                             *)
(***************************************************************************)
MaxItems == 2   \* items of a JSON array in a response
MaxWords == 3   \* words of a response that is prose

MAX_EXTRACTED == 5

Vocabulary == {"cup", "keys", "the"}

NameStrings == {"cup", " Cup", "the"}

commonObjects ==
  {"chair", "table", "book", "phone", "laptop", "cup", "bottle", "bag",
   "keys", "glasses", "pen", "paper", "clock", "lamp", "plant", "picture",
   "computer", "mouse", "keyboard", "monitor", "headphones", "camera",
   "wallet", "watch", "shoe", "shirt", "jacket", "hat", "pillow", "blanket"}

\* name.toLowerCase().trim()
toLowerCaseTrim(s) == IF s = " Cup" THEN "cup" ELSE s

NoCoord == [has |-> FALSE, v |-> 0]

Coords == {NoCoord} \cup {[has |-> TRUE, v |-> n] : n \in {-5, 0, 30, 150}}

Items ==
  {[t |-> "str", nameType |-> "string", name |-> n, x |-> NoCoord,
    y |-> NoCoord] : n \in NameStrings}
  \cup {[t |-> "null", nameType |-> "undefined", name |-> "", x |-> NoCoord,
         y |-> NoCoord]}
  \cup {[t |-> "obj", nameType |-> "string", name |-> n, x |-> c,
         y |-> NoCoord] : n \in NameStrings, c \in Coords}
  \cup {[t |-> "obj", nameType |-> nt, name |-> "", x |-> NoCoord,
         y |-> [has |-> TRUE, v |-> 70]] : nt \in {"undefined", "number"}}

SeqsUpTo(S, n) == UNION {[1..k -> S] : k \in 0..n}

Texts ==
  {[kind |-> "prose", words |-> w, isArray |-> FALSE, items |-> <<>>] :
     w \in SeqsUpTo(Vocabulary, MaxWords)}
  \cup {[kind |-> "json", words |-> <<>>, isArray |-> FALSE, items |-> <<>>]}
  \cup {[kind |-> "json", words |-> <<>>, isArray |-> TRUE, items |-> a] :
          a \in SeqsUpTo(Items, MaxItems)}

ApiOutcomes == {"nokey", "network", "timeout", "malformed", "nullcontent",
                "text"}

\* the words /\b[a-z]+\b/g finds in the lower-cased text of an item
ItemWords(item) ==
  IF item.t = "str" THEN <<toLowerCaseTrim(item.name)>>
  ELSE IF item.t = "null" THEN <<"null">>
  ELSE IF item.nameType = "string"
       THEN <<"name", toLowerCaseTrim(item.name)>>
            \o (IF item.x.has THEN <<"x">> ELSE <<>>)
       ELSE (IF item.nameType = "number" THEN <<"name">> ELSE <<>>)
            \o <<"y">>

RECURSIVE Flatten(_)
Flatten(ss) == IF ss = <<>> THEN <<>> ELSE Head(ss) \o Flatten(Tail(ss))

TextWords(text) ==
  IF text.kind = "prose" THEN text.words
  ELSE IF ~text.isArray THEN <<"null">>
  ELSE Flatten([k \in DOMAIN text.items |-> ItemWords(text.items[k])])

\* [...new Set(seq)]: the first occurrence of each element, in order
RECURSIVE Unique(_)
Unique(s) ==
  IF s = <<>> THEN <<>>
  ELSE LET rest == Unique(SubSeq(s, 1, Len(s) - 1))
       IN IF \E k \in DOMAIN rest : rest[k] = s[Len(s)]
          THEN rest ELSE Append(rest, s[Len(s)])

slice(s, n) == SubSeq(s, 1, IF Len(s) < n THEN Len(s) ELSE n)

extractObjectsFromText(text) ==
  LET words == TextWords(text)
      foundObjects == SelectSeq(words, LAMBDA word : word \in commonObjects)
  IN slice(Unique(foundObjects), MAX_EXTRACTED)

Returned(v) == [ok |-> TRUE, v |-> v]

Thrown == [ok |-> FALSE, v |-> <<>>]

\* c || 50 without the clamp
unclamped(c) == IF ~c.has \/ c.v = 0 THEN 50 ELSE c.v

\* Math.max(0, Math.min(100, c || 50))
clamp(c) ==
  LET n == IF ~c.has \/ c.v = 0 THEN 50 ELSE c.v
  IN IF n > 100 THEN 100 ELSE IF n < 0 THEN 0 ELSE n

\* the body of the inner try: JSON.parse and the two array formats
parseResponse(text) ==
  LET detectedObjects == text.items
      newFormat ==
        /\ detectedObjects # <<>>
        /\ detectedObjects[1].t = "obj"
        /\ detectedObjects[1].nameType # "undefined"
  IN IF text.kind = "prose" THEN Thrown
     ELSE IF ~text.isArray
     THEN Returned(<<[name |-> "unknown object", x |-> 50, y |-> 50]>>)
     ELSE IF detectedObjects # <<>> /\ detectedObjects[1].t = "null"
     THEN Thrown
     ELSE IF newFormat
     THEN IF \E k \in DOMAIN detectedObjects :
                \/ detectedObjects[k].t # "obj"
                \/ detectedObjects[k].nameType # "string"
          THEN Thrown
          ELSE Returned([k \in DOMAIN detectedObjects |->
                  [name |-> toLowerCaseTrim(detectedObjects[k].name),
                   x |-> clamp(detectedObjects[k].x),
                   y |-> clamp(detectedObjects[k].y)]])
     ELSE IF \E k \in DOMAIN detectedObjects : detectedObjects[k].t # "str"
          THEN Thrown
          ELSE Returned([k \in DOMAIN detectedObjects |->
                  [name |-> toLowerCaseTrim(detectedObjects[k].name),
                   x |-> 20 + (((k - 1) * 15) % 60),
                   y |-> 20 + (((k - 1) * 20) % 60)]])

\* the inner catch without the placeholder
parseFallbackBare(text) ==
  LET fallbackObjects == extractObjectsFromText(text)
  IN Returned([k \in DOMAIN fallbackObjects |->
                 [name |-> fallbackObjects[k],
                  x |-> 25 + (((k - 1) * 20) % 50),
                  y |-> 25 + (((k - 1) * 25) % 50)]])

\* the inner catch: keyword extraction, else the placeholder
parseFallback(text) ==
  LET fallbackObjects == extractObjectsFromText(text)
      objectsWithCoords ==
        [k \in DOMAIN fallbackObjects |->
           [name |-> fallbackObjects[k],
            x |-> 25 + (((k - 1) * 20) % 50),
            y |-> 25 + (((k - 1) * 25) % 50)]]
  IN Returned(IF objectsWithCoords # <<>> THEN objectsWithCoords
              ELSE <<[name |-> "detected object", x |-> 50, y |-> 50]>>)

\* the body of the outer try
requestAndParse(outcome, text) ==
  IF outcome = "nokey"
  THEN Returned(<<[name |-> "phone", x |-> 30, y |-> 40],
                  [name |-> "table", x |-> 60, y |-> 70],
                  [name |-> "book", x |-> 45, y |-> 25]>>)
  ELSE IF outcome \in {"network", "timeout", "malformed", "nullcontent"}
  THEN Thrown
  ELSE IF parseResponse(text).ok THEN parseResponse(text)
  ELSE parseFallback(text)

analyzeImageWithAI(outcome, text) ==
  IF requestAndParse(outcome, text).ok THEN requestAndParse(outcome, text)
  ELSE Returned(<<[name |-> "camera", x |-> 40, y |-> 50],
                  [name |-> "object", x |-> 65, y |-> 35]>>)

\* a screen awaits analyzeImageWithAI and holds what it resolved with
Analyze(outcome, text) ==
  /\ ~screen.analysis.done
  /\ screen' = [screen EXCEPT !.analysis =
                  [done |-> TRUE, outcome |-> outcome, text |-> text,
                   result |-> analyzeImageWithAI(outcome, text)]]
  /\ UNCHANGED <<isWriting, storage, syncKey, lastSyncTime, authUser,
                 pictures, objects, procs, clock, lastRead, lastCheck>>

\* the screen is left and its detected objects are dropped
LeaveAnalysis ==
  /\ screen.analysis.done
  /\ screen' = [screen EXCEPT !.analysis = NoAnalysis]
  /\ UNCHANGED <<isWriting, storage, syncKey, lastSyncTime, authUser,
                 pictures, objects, procs, clock, lastRead, lastCheck>>

NextAI ==
  \/ \E outcome \in ApiOutcomes \ {"text"} : Analyze(outcome, NoText)
  \/ \E text \in Texts : Analyze("text", text)
  \/ LeaveAnalysis

SpecAI == Init /\ [][NextAI]_vars

(***************************************************************************)
(* The capture flows (takePicture, uploadFromGallery): the quota is read   *)
(* and decided on first; the Picture row is inserted much later, when the  *)
(* confirmed objects are saved.  Nothing ties the two together.            *)
(***************************************************************************)
\* takePicture that captures whatever the check answered
TakePictureUngated(f, user, ok) ==
  /\ screen.flows[f].pc = "idle"
  /\ screen' = [screen EXCEPT !.flows[f] =
                  [pc |-> "capturing", user |-> user,
                   limitCheck |-> DailyLimitResult(user, clock, ok)]]
  /\ UNCHANGED <<isWriting, storage, syncKey, lastSyncTime, authUser,
                 pictures, objects, procs, clock, lastRead, lastCheck>>

\* takePicture up to the capture: the alert and return, or the go-ahead
TakePicture(f, user, ok) ==
  /\ screen.flows[f].pc = "idle"
  /\ LET limitCheck == DailyLimitResult(user, clock, ok)
     IN screen' = [screen EXCEPT !.flows[f] =
                     [pc |-> IF limitCheck.canTakePicture THEN "capturing"
                             ELSE "idle",
                      user |-> user, limitCheck |-> limitCheck]]
  /\ UNCHANGED <<isWriting, storage, syncKey, lastSyncTime, authUser,
                 pictures, objects, procs, clock, lastRead, lastCheck>>

\* the capture is uploaded, analysed and confirmed; saveObject inserts the
\* Picture row of the new file
CaptureSaved(f) ==
  /\ screen.flows[f].pc = "capturing"
  /\ pictures' = Append(pictures, PictureRow(screen.flows[f].user,
                                             PathRef(Len(pictures) + 1)))
  /\ screen' = [screen EXCEPT !.flows[f].pc = "idle"]
  /\ UNCHANGED <<isWriting, storage, syncKey, lastSyncTime, authUser,
                 objects, procs, clock, lastRead, lastCheck>>

\* the capture is abandoned before anything is saved
CaptureDropped(f) ==
  /\ screen.flows[f].pc = "capturing"
  /\ screen' = [screen EXCEPT !.flows[f].pc = "idle"]
  /\ UNCHANGED <<isWriting, storage, syncKey, lastSyncTime, authUser,
                 pictures, objects, procs, clock, lastRead, lastCheck>>

(***************************************************************************)
(* SpecRace: two capture flows of one owner on one day; the quota query    *)
(* succeeds.                                                               *)
(***************************************************************************)
NextRace ==
  \/ \E f \in Flows : TakePicture(f, "u1", TRUE)
  \/ \E f \in Flows : CaptureSaved(f)
  \/ \E f \in Flows : CaptureDropped(f)

SpecRace == Init /\ [][NextRace]_vars

(***************************************************************************)
(* ObjectConfirmationScreen.saveObjects: in edit mode the Object rows of   *)
(* the picture are soft-deleted first; then saveObject is awaited for each *)
(* name of the list on the screen, in order.                               *)
(***************************************************************************)
MaxSaves == 2   \* runs of saveObjects

\* the lists a screen can hold when Save is pressed
ObjectLists ==
  {l \in SeqsUpTo(Names, Cardinality(Names)) :
     /\ l # <<>>
     /\ \A a, b \in DOMAIN l : a # b => l[a] # l[b]}

EditedImage == PathRef(1)

SetSave(r) == screen' = [screen EXCEPT !.save = r]

\* Save is pressed: if (objects.length === 0) return; if (!user) return
saveObjects(isEditMode, names) ==
  /\ screen.save.pc = "idle"
  /\ screen.save.runs < MaxSaves
  /\ authUser # NoUser
  /\ SetSave([pc |-> IF isEditMode THEN "select" ELSE "loop",
              isEditMode |-> isEditMode, objects |-> names, i |-> 1,
              user |-> authUser, picture_id |-> 0,
              runs |-> screen.save.runs + 1])
  /\ UNCHANGED <<isWriting, storage, syncKey, lastSyncTime, authUser,
                 pictures, objects, procs, clock, lastRead, lastCheck>>

\* from('pictures').select('id').eq('user_id').eq('image_url').single()
SV_Select(ok) ==
  /\ screen.save.pc = "select"
  /\ LET pictureData == ExistingPictures(screen.save.user,
                                         createStorageReference(EditedImage))
     IN IF ok /\ Cardinality(pictureData) = 1
        THEN SetSave([screen.save EXCEPT
                        !.picture_id = Min(pictureData), !.pc = "delete"])
        ELSE SetSave([screen.save EXCEPT !.pc = "failed"])
  /\ UNCHANGED <<isWriting, storage, syncKey, lastSyncTime, authUser,
                 pictures, objects, procs, clock, lastRead, lastCheck>>

\* from('objects').update({ deleted: true }).eq('picture_id', pictureData.id)
SV_Delete(ok) ==
  /\ screen.save.pc = "delete"
  /\ IF ok
     THEN /\ objects' = [k \in DOMAIN objects |->
                IF objects[k].picture_id = screen.save.picture_id
                THEN [objects[k] EXCEPT !.deleted = TRUE] ELSE objects[k]]
          /\ SetSave([screen.save EXCEPT !.pc = "loop"])
     ELSE /\ objects' = objects
          /\ SetSave([screen.save EXCEPT !.pc = "failed"])
  /\ UNCHANGED <<isWriting, storage, syncKey, lastSyncTime, authUser,
                 pictures, procs, clock, lastRead, lastCheck>>

\* the loop calls saveObject(objectData, safeUserIdValue, imageUrl)
SV_Call(p) ==
  /\ screen.save.pc = "loop"
  /\ procs[p].pc = "idle"
  /\ Set(p, [Idle EXCEPT !.op = "saveObject", !.pc = "mutex"])
  /\ SetSave([screen.save EXCEPT !.pc = "await"])
  /\ UNCHANGED <<isWriting, storage, syncKey, lastSyncTime, authUser,
                 pictures, objects, clock, lastRead, lastCheck>>

\* the arguments of the call that the loop awaits
SV_Acquire(p) ==
  /\ screen.save.pc = "await"
  /\ SO_Acquire(p, safeUserId(screen.save.user), EditedImage,
                toLowerCaseTrim(screen.save.objects[screen.save.i]))

\* await saveObject(...) returns; the loop goes on or ends
SV_Returned(p) ==
  /\ screen.save.pc = "await"
  /\ procs[p].pc = "idle"
  /\ SetSave([screen.save EXCEPT
                !.i = screen.save.i + 1,
                !.pc = IF screen.save.i = Len(screen.save.objects)
                       THEN "done" ELSE "loop"])
  /\ UNCHANGED <<isWriting, storage, syncKey, lastSyncTime, authUser,
                 pictures, objects, procs, clock, lastRead, lastCheck>>

\* the success or error alert is dismissed
SV_Leave ==
  /\ screen.save.pc \in {"done", "failed"}
  /\ SetSave([NoSave EXCEPT !.runs = screen.save.runs])
  /\ UNCHANGED <<isWriting, storage, syncKey, lastSyncTime, authUser,
                 pictures, objects, procs, clock, lastRead, lastCheck>>

(***************************************************************************)
(* SpecEdit: the owner saves the objects of one picture and edits them;    *)
(* the storage calls and the remote calls of saveObject succeed.           *)
(***************************************************************************)
NextEdit ==
  \/ \E e \in BOOLEAN, l \in ObjectLists : saveObjects(e, l)
  \/ \E ok \in BOOLEAN : SV_Select(ok)
  \/ \E ok \in BOOLEAN : SV_Delete(ok)
  \/ SV_Call("p1")
  \/ SV_Acquire("p1")
  \/ SO_Read("p1", TRUE)
  \/ SO_Write("p1", TRUE)
  \/ SO_Select("p1", TRUE)
  \/ SO_InsertPicture("p1", "ok")
  \/ SO_InsertObject("p1", "ok")
  \/ Release("p1")
  \/ SV_Returned("p1")
  \/ SV_Leave
  \/ \E u \in Owner : screen.save.pc = "idle" /\ AuthChange(u)

SpecEdit == Init /\ [][NextEdit]_vars

(***************************************************************************)
(* SyncButton.handleSync: the confirmed sync awaits                        *)
(* clearAndSyncFromSupabase(user.id) and shows 'Sync Complete' when the    *)
(* promise resolves, 'Sync Failed' when it rejects.                        *)
(***************************************************************************)
SetSync(r) == screen' = [screen EXCEPT !.sync = r]

\* how the promise of a clearAndSyncFromSupabase call at its finally block
\* settles: the catch block turns every throw into `return []`
clearAndSyncSettles(p) == "resolved"

\* Sync is pressed and confirmed: if (!user) return
handleSync(p) ==
  /\ screen.sync.pc = "idle"
  /\ authUser # NoUser
  /\ procs[p].pc = "idle"
  /\ Set(p, [Idle EXCEPT !.op = "clearAndSyncFromSupabase", !.pc = "mutex"])
  /\ SetSync([NoSync EXCEPT !.pc = "syncing", !.user = authUser])
  /\ UNCHANGED <<isWriting, storage, syncKey, lastSyncTime, authUser,
                 pictures, objects, clock, lastRead, lastCheck>>

\* the argument of the call that the button awaits
SB_Acquire(p) ==
  /\ screen.sync.pc = "syncing"
  /\ CS_Acquire(p, screen.sync.user)

\* the call runs its finally block and the awaiting handler shows an alert
SB_Settled(p) ==
  /\ screen.sync.pc = "syncing"
  /\ procs[p].pc = "release"
  /\ procs[p].op = "clearAndSyncFromSupabase"
  /\ releaseMutex
  /\ Set(p, Idle)
  /\ SetSync([screen.sync EXCEPT
                !.pc = "alert",
                !.alert = IF clearAndSyncSettles(p) = "resolved"
                          THEN "Sync Complete" ELSE "Sync Failed",
                !.fetchOk = procs[p].fetchOk,
                !.fetchFailed = procs[p].remoteFailed])
  /\ UNCHANGED <<storage, syncKey, lastSyncTime, authUser,
                 pictures, objects, clock, lastRead, lastCheck>>

\* OK is pressed: 'Sync Complete' calls onSyncComplete?.(syncedObjects)
SB_Dismiss ==
  /\ screen.sync.pc = "alert"
  /\ SetSync([screen.sync EXCEPT
                !.pc = "idle",
                !.onSyncComplete = (screen.sync.alert = "Sync Complete")])
  /\ UNCHANGED <<isWriting, storage, syncKey, lastSyncTime, authUser,
                 pictures, objects, procs, clock, lastRead, lastCheck>>

(***************************************************************************)
(* SpecButton: the owner saves objects and presses the sync button; every  *)
(* call of the sync can fail.                                              *)
(***************************************************************************)
NextButton ==
  \/ screen.sync.pc = "idle" /\ CallSaveObject("p1")
  \/ \E i \in ImageRefs, n \in Names : SO_Acquire("p1", "u1", i, n)
  \/ SO_Read("p1", TRUE)
  \/ SO_Write("p1", TRUE)
  \/ SO_Select("p1", TRUE)
  \/ SO_InsertPicture("p1", "ok")
  \/ SO_InsertObject("p1", "ok")
  \/ procs["p1"].op = "saveObject" /\ Release("p1")
  \/ handleSync("p1")
  \/ SB_Acquire("p1")
  \/ \E ok \in BOOLEAN : CS_Clear("p1", ok)
  \/ \E ok \in BOOLEAN : CS_Fetch("p1", ok)
  \/ \E ok \in BOOLEAN : CS_Write("p1", ok)
  \/ \E ok \in BOOLEAN : CS_Stamp("p1", ok)
  \/ SB_Settled("p1")
  \/ SB_Dismiss
  \/ \E u \in Owner : Idling /\ screen.sync.pc = "idle" /\ AuthChange(u)

SpecButton == Init /\ [][NextButton]_vars

(***************************************************************************)
(* CameraScreen.takePicture and CameraScreen.uploadFromGallery, await by   *)
(* await.  Every return and every throw passes the finally block, which    *)
(* calls setIsLoading(false).                                              *)
(***************************************************************************)
CaptureKinds == {"takePicture", "uploadFromGallery"}

SetCapture(r) == screen' = [screen EXCEPT !.capture = r]

\* a return or a caught throw: the alert, then finally setIsLoading(false)
Finish(r, alert) == [r EXCEPT !.pc = "done", !.alert = alert,
                              !.isLoading = FALSE]

\* the button is pressed: if (!user) { alert; navigate('Login'); return }
CP_Start(kind) ==
  /\ screen.capture.pc = "idle"
  /\ SetCapture(IF authUser = NoUser
                THEN Finish([NoCapture EXCEPT !.kind = kind],
                            "Authentication Required")
                ELSE [NoCapture EXCEPT !.kind = kind, !.user = authUser,
                                       !.pc = "check"])
  /\ UNCHANGED <<isWriting, storage, syncKey, lastSyncTime, authUser,
                 pictures, objects, procs, clock, lastRead, lastCheck>>

\* the limit check whose answer is not looked at
CP_CheckUngated(ok) ==
  /\ screen.capture.pc = "check"
  /\ SetCapture([screen.capture EXCEPT
                   !.limitCheck = DailyLimitResult(screen.capture.user,
                                                   clock, ok),
                   !.isLoading = TRUE, !.everLoading = TRUE,
                   !.pc = IF screen.capture.kind = "takePicture"
                          THEN "capture" ELSE "permission"])
  /\ UNCHANGED <<isWriting, storage, syncKey, lastSyncTime, authUser,
                 pictures, objects, procs, clock, lastRead, lastCheck>>

\* limitCheck = await checkDailyPictureLimit(user.id);
\* if (!limitCheck.canTakePicture) { alert; return }  setIsLoading(true)
CP_Check(ok) ==
  /\ screen.capture.pc = "check"
  /\ LET limitCheck == DailyLimitResult(screen.capture.user, clock, ok)
         checked == [screen.capture EXCEPT !.limitCheck = limitCheck]
     IN SetCapture(IF ~limitCheck.canTakePicture
                   THEN Finish(checked, "Daily Limit Reached")
                   ELSE [checked EXCEPT
                           !.isLoading = TRUE, !.everLoading = TRUE,
                           !.pc = IF screen.capture.kind = "takePicture"
                                  THEN "capture" ELSE "permission"])
  /\ UNCHANGED <<isWriting, storage, syncKey, lastSyncTime, authUser,
                 pictures, objects, procs, clock, lastRead, lastCheck>>

\* await ImagePicker.requestMediaLibraryPermissionsAsync()
CP_Permission(granted) ==
  /\ screen.capture.pc = "permission"
  /\ SetCapture(IF granted THEN [screen.capture EXCEPT !.pc = "capture"]
                ELSE Finish(screen.capture, "Permission Required"))
  /\ UNCHANGED <<isWriting, storage, syncKey, lastSyncTime, authUser,
                 pictures, objects, procs, clock, lastRead, lastCheck>>

\* await takePictureAsync(), which can throw, or launchImageLibraryAsync(),
\* which the user can cancel
CP_Capture(ok) ==
  /\ screen.capture.pc = "capture"
  /\ SetCapture(IF ok
                THEN [screen.capture EXCEPT !.captured = TRUE,
                                            !.pc = "upload"]
                ELSE Finish(screen.capture,
                            IF screen.capture.kind = "takePicture"
                            THEN "Error" ELSE "none"))
  /\ UNCHANGED <<isWriting, storage, syncKey, lastSyncTime, authUser,
                 pictures, objects, procs, clock, lastRead, lastCheck>>

\* imageUrl = await uploadImageToUserFolder(uri, user.id): a url or null
CP_Upload(ok) ==
  /\ screen.capture.pc = "upload"
  /\ SetCapture(IF ok
                THEN [screen.capture EXCEPT !.uploaded = TRUE, !.pc = "sign"]
                ELSE Finish(screen.capture, "Upload Error"))
  /\ UNCHANGED <<isWriting, storage, syncKey, lastSyncTime, authUser,
                 pictures, objects, procs, clock, lastRead, lastCheck>>

\* aiSignedUrl = await generateSignedUrlForAI(imageUrl): a url or null
CP_Sign(ok) ==
  /\ screen.capture.pc = "sign"
  /\ SetCapture(IF ok THEN [screen.capture EXCEPT !.pc = "analyze"]
                ELSE Finish(screen.capture, "Error"))
  /\ UNCHANGED <<isWriting, storage, syncKey, lastSyncTime, authUser,
                 pictures, objects, procs, clock, lastRead, lastCheck>>

\* detectedObjects = await analyzeImageWithAI(aiSignedUrl); navigate
CP_Analyze ==
  /\ screen.capture.pc = "analyze"
  /\ SetCapture(Finish([screen.capture EXCEPT !.analysed = TRUE], "none"))
  /\ UNCHANGED <<isWriting, storage, syncKey, lastSyncTime, authUser,
                 pictures, objects, procs, clock, lastRead, lastCheck>>

\* the screen is ready for the next press
CP_Leave ==
  /\ screen.capture.pc = "done"
  /\ SetCapture(NoCapture)
  /\ UNCHANGED <<isWriting, storage, syncKey, lastSyncTime, authUser,
                 pictures, objects, procs, clock, lastRead, lastCheck>>

(***************************************************************************)
(* SpecCapture: one camera screen; the owner signs in and out and holds    *)
(* up to the limit and more Picture rows of the day.                       *)
(***************************************************************************)
NextCapture ==
  \/ \E kind \in CaptureKinds : CP_Start(kind)
  \/ \E ok \in BOOLEAN : CP_Check(ok)
  \/ \E granted \in BOOLEAN : CP_Permission(granted)
  \/ \E ok \in BOOLEAN : CP_Capture(ok)
  \/ \E ok \in BOOLEAN : CP_Upload(ok)
  \/ \E ok \in BOOLEAN : CP_Sign(ok)
  \/ CP_Analyze
  \/ CP_Leave
  \/ screen.capture.pc = "idle" /\ InsertPictureRow("u1")
  \/ \E u \in Owner : screen.capture.pc \in {"idle", "check"} /\ AuthChange(u)

SpecCapture == Init /\ [][NextCapture]_vars

(***************************************************************************)
(* SpecSearch: objects are saved under names of either case, the cache is  *)
(* cleared or the remote save fails, so that cache and remote table        *)
(* differ; searchObjectsWithPictureNames is called with the remote query   *)
(* succeeding or failing.                                                  *)
(***************************************************************************)
SearchNames == {"cup", "Cup", "key"}

SearchQueries == {"", "UP", "e", "pc"}

\* a search screen awaits searchObjectsWithPictureNames(query, user_id)
Search(query, user_id, remoteOk) ==
  /\ Idling
  /\ lastRead = NoRead
  /\ lastRead' = [op |-> "search", user |-> ResolveUser(user_id),
                  result |-> searchObjectsWithPictureNames(query, user_id,
                                                           remoteOk, TRUE),
                  pics |-> <<>>, query |-> query, remoteOk |-> remoteOk]
  /\ UNCHANGED <<isWriting, storage, syncKey, lastSyncTime, authUser,
                 pictures, objects, procs, clock, lastCheck, screen>>

NextSearch ==
  \/ lastRead = NoRead /\ CallSaveObject("p1")
  \/ lastRead = NoRead
       /\ \E u \in Users, n \in SearchNames : SO_Acquire("p1", u, PathRef(1), n)
  \/ lastRead = NoRead /\ Release("p1")
  \/ SO_Read("p1", TRUE)
  \/ SO_Write("p1", TRUE)
  \/ \E ok \in BOOLEAN : SO_Select("p1", ok)
  \/ SO_InsertPicture("p1", "ok")
  \/ SO_InsertObject("p1", "ok")
  \/ lastRead = NoRead /\ CallClearAllObjects("p1")
  \/ CA_Acquire("p1", "u1")
  \/ CA_Read("p1", TRUE)
  \/ CA_Write("p1", TRUE)
  \/ \E u \in UserArgs : lastRead = NoRead /\ Idling /\ AuthChange(u)
  \/ \E q \in SearchQueries, u \in UserArgs, ok \in BOOLEAN : Search(q, u, ok)
  \/ ConsumeRead

SpecSearch == Init /\ [][NextSearch]_vars

(***************************************************************************)
(* SpecCoords: responses that stress the coordinates: objects with numeric *)
(* x and y far outside and at the edges of 0..100, long lists of names     *)
(* only, and prose with up to the five keywords that are kept.             *)
(***************************************************************************)
MaxNamesOnly == 6   \* items of a names-only array
MaxKeywords == 6    \* common-object words of a prose response

CoordValues == {-1000, -1, 0, 1, 100, 101, 1000}

KeywordList ==
  <<"chair", "table", "book", "phone", "laptop", "cup", "bottle", "bag",
    "keys", "glasses">>

CoordItems ==
  {[t |-> "obj", nameType |-> "string", name |-> "cup",
    x |-> [has |-> TRUE, v |-> a], y |-> c] :
     a \in CoordValues,
     c \in {NoCoord, [has |-> TRUE, v |-> -7], [has |-> TRUE, v |-> 250]}}

NameItem ==
  [t |-> "str", nameType |-> "string", name |-> "cup", x |-> NoCoord,
   y |-> NoCoord]

CoordTexts ==
  {[kind |-> "json", words |-> <<>>, isArray |-> TRUE, items |-> a] :
     a \in SeqsUpTo(CoordItems, MaxItems)}
  \cup {[kind |-> "json", words |-> <<>>, isArray |-> TRUE,
         items |-> [k \in 1..n |-> NameItem]] : n \in 1..MaxNamesOnly}
  \cup {[kind |-> "prose", words |-> SubSeq(KeywordList, 1, n),
         isArray |-> FALSE, items |-> <<>>] :
          n \in 0..(IF MaxKeywords < Len(KeywordList) THEN MaxKeywords
                    ELSE Len(KeywordList))}
  \cup {[kind |-> "json", words |-> <<>>, isArray |-> FALSE, items |-> <<>>]}

NextCoords ==
  \/ \E outcome \in {"nokey", "network"} : Analyze(outcome, NoText)
  \/ \E text \in CoordTexts : Analyze("text", text)
  \/ LeaveAnalysis

SpecCoords == Init /\ [][NextCoords]_vars

(***************************************************************************)
(* Image references as a normal form.  The references an invocation can    *)
(* be handed: the plain path of a stored file, a signed URL of that file   *)
(* under any token, and an http URL that is no signed URL of the bucket.   *)
(***************************************************************************)
MaxFiles == 2    \* stored files
MaxTokens == 2   \* tokens a file has been signed with

Token(k) == CASE k = 1 -> "t1" [] k = 2 -> "t2" [] OTHER -> "t3"

PublicRef(f) == <<"public", f, "">>

StoredRefs ==
  {PathRef(f) : f \in 1..MaxFiles}
    \cup {SignedRef(f, Token(k)) : f \in 1..MaxFiles, k \in 1..MaxTokens}

RefInputs == StoredRefs \cup {PublicRef(f) : f \in 1..MaxFiles}

\* const standardizedImageUrl = createStorageReference(imageUrl), and the
\* reference it yields passed through createStorageReference once more
Standardize(imageUrl) ==
  /\ ~screen.reference.done
  /\ screen' = [screen EXCEPT !.reference =
                  [done |-> TRUE, input |-> imageUrl,
                   ref |-> createStorageReference(imageUrl),
                   again |-> createStorageReference(
                                createStorageReference(imageUrl))]]
  /\ UNCHANGED <<isWriting, storage, syncKey, lastSyncTime, authUser,
                 pictures, objects, procs, clock, lastRead, lastCheck>>

LeaveReference ==
  /\ screen.reference.done
  /\ screen' = [screen EXCEPT !.reference = NoReference]
  /\ UNCHANGED <<isWriting, storage, syncKey, lastSyncTime, authUser,
                 pictures, objects, procs, clock, lastRead, lastCheck>>

\* saves of the signed-in owner, every storage and remote step succeeding,
\* the image handed over in any of its forms
NextRef ==
  \/ \E i \in RefInputs : Standardize(i)
  \/ LeaveReference
  \/ AuthChange("u1")
  \/ CallSaveObject("p1")
  \/ \E i \in StoredRefs, n \in Names :
        authUser = "u1" /\ SO_Acquire("p1", "u1", i, n)
  \/ SO_Read("p1", TRUE)
  \/ SO_Write("p1", TRUE)
  \/ SO_Select("p1", TRUE)
  \/ SO_InsertPicture("p1", "ok")
  \/ SO_InsertObject("p1", "ok")
  \/ Release("p1")

SpecRef == Init /\ [][NextRef]_vars

(***************************************************************************)
(* Progress of the guarded operations.  Step(p) is every step a call in    *)
(* flight can take: the poll of writeMutex finding the flag down, the      *)
(* return of a storage or network call with a result or an error, and the  *)
(* finally block.  The timer of the poll fires every 10 ms and every       *)
(* awaited call returns, so a step that stays possible is taken.           *)
(***************************************************************************)
Step(p) ==
  \/ \E u \in UserArgs, i \in ImageRefs : SO_Acquire(p, u, i, "cup")
  \/ SO_User(p)
  \/ \E ok \in BOOLEAN : SO_Read(p, ok)
  \/ \E ok \in BOOLEAN : SO_Write(p, ok)
  \/ \E ok \in BOOLEAN : SO_Select(p, ok)
  \/ \E o \in Outcomes : SO_InsertPicture(p, o)
  \/ \E o \in Outcomes : SO_InsertObject(p, o)
  \/ \E u \in UserArgs : CA_Acquire(p, u)
  \/ CA_User(p)
  \/ \E ok \in BOOLEAN : CA_Remove(p, ok)
  \/ \E ok \in BOOLEAN : CA_Read(p, ok)
  \/ \E ok \in BOOLEAN : CA_Write(p, ok)
  \/ \E u \in UserArgs : CS_Acquire(p, u)
  \/ CS_User(p)
  \/ \E ok \in BOOLEAN : CS_Clear(p, ok)
  \/ \E ok \in BOOLEAN : CS_Fetch(p, ok)
  \/ \E ok \in BOOLEAN : CS_Write(p, ok)
  \/ \E ok \in BOOLEAN : CS_Stamp(p, ok)
  \/ \E u \in UserArgs : SY_Acquire(p, u)
  \/ SY_User(p)
  \/ \E ok \in BOOLEAN : SY_Fetch(p, ok)
  \/ \E ok \in BOOLEAN : SY_Read(p, ok)
  \/ \E ok \in BOOLEAN : SY_Write(p, ok)
  \/ \E ok \in BOOLEAN : SY_Stamp(p, ok)
  \/ Release(p)

NextLive ==
  \/ CallSaveObject("p1")
  \/ CallClearAllObjects("p1")
  \/ CallClearAndSync("p1")
  \/ CallSyncFromSupabase("p1")
  \/ Step("p1")
  \/ \E u \in UserArgs : Idling /\ AuthChange(u)

SpecLive == Init /\ [][NextLive]_vars /\ WF_vars(Step("p1"))

(***************************************************************************)
(* The exits of saveObject and clearAndSyncFromSupabase: two calls in      *)
(* flight, every storage and remote step either returning or throwing.     *)
(***************************************************************************)
NextExit ==
  \/ \E p \in Procs : CallSaveObject(p)
  \/ \E p \in Procs, u \in Owner, i \in ImageRefs :
        SO_Acquire(p, u, i, "cup")
  \/ \E p \in Procs : SO_User(p)
  \/ \E p \in Procs, ok \in BOOLEAN : SO_Read(p, ok)
  \/ \E p \in Procs, ok \in BOOLEAN : SO_Write(p, ok)
  \/ \E p \in Procs, ok \in BOOLEAN : SO_Select(p, ok)
  \/ \E p \in Procs, o \in Outcomes : SO_InsertPicture(p, o)
  \/ \E p \in Procs, o \in Outcomes : SO_InsertObject(p, o)
  \/ \E p \in Procs : CallClearAndSync(p)
  \/ \E p \in Procs, u \in Owner : CS_Acquire(p, u)
  \/ \E p \in Procs : CS_User(p)
  \/ \E p \in Procs, ok \in BOOLEAN : CS_Clear(p, ok)
  \/ \E p \in Procs, ok \in BOOLEAN : CS_Fetch(p, ok)
  \/ \E p \in Procs, ok \in BOOLEAN : CS_Write(p, ok)
  \/ \E p \in Procs, ok \in BOOLEAN : CS_Stamp(p, ok)
  \/ \E p \in Procs : Release(p)
  \/ \E u \in Owner : AuthChange(u)

SpecExit == Init /\ [][NextExit]_vars

(***************************************************************************)
(* SpecConfirm: the confirmation screen saves its list while the storage   *)
(* calls and the remote calls of saveObject can fail.                      *)
(***************************************************************************)
NextConfirm ==
  \/ \E e \in BOOLEAN, l \in ObjectLists : saveObjects(e, l)
  \/ \E ok \in BOOLEAN : SV_Select(ok)
  \/ \E ok \in BOOLEAN : SV_Delete(ok)
  \/ SV_Call("p1")
  \/ SV_Acquire("p1")
  \/ \E ok \in BOOLEAN : SO_Read("p1", ok)
  \/ \E ok \in BOOLEAN : SO_Write("p1", ok)
  \/ \E ok \in BOOLEAN : SO_Select("p1", ok)
  \/ \E o \in Outcomes : SO_InsertPicture("p1", o)
  \/ \E o \in Outcomes : SO_InsertObject("p1", o)
  \/ Release("p1")
  \/ SV_Returned("p1")
  \/ SV_Leave
  \/ \E u \in Owner : screen.save.pc = "idle" /\ AuthChange(u)

SpecConfirm == Init /\ [][NextConfirm]_vars

(***************************************************************************)
(*                              PROPERTIES                                 *)
(***************************************************************************)

\* a call holds the mutex from the return of writeMutex() to releaseMutex();
\* a syncFromSupabase that waits in its nested clearAllObjects still holds it
Holding(p) ==
  \/ procs[p].pc \notin {"idle", "mutex"}
  \/ procs[p].pc = "mutex" /\ procs[p].caller # "none"

Holders == {p \in Procs : Holding(p)}

\* C1: at most one call is between its writeMutex() acquisition and its
\* releaseMutex() at any time, and the flag is up while a call is there.
C1_MutualExclusion ==
  /\ Cardinality(Holders) <= 1
  /\ Holders # {} => isWriting

\* one call holds the mutex while another call waits for it
C1_Contention ==
  \E p, q \in Procs :
     /\ p # q
     /\ Holding(p)
     /\ procs[q].pc = "mutex" /\ procs[q].caller = "none"

\* C2: a saveObject whose local write succeeds leaves the cache blob equal
\* to the blob before the call (all owners' entries) plus the new entry.
C2_SaveObjectAppends ==
  [][\A p \in Procs :
        (procs[p].pc = "so_write" /\ procs'[p].pc = "so_select")
          => storage' = Append(storage, LocalEntry(p))]_vars

RemoteTriple(i) ==
  <<pictures[objects[i].picture_id].image_url, objects[i].object_name,
    pictures[objects[i].picture_id].user_id>>

\* C3: no two non-deleted remote Object rows have the same (image
\* reference, object name, owner) triple.
C3_NoDuplicateRemoteObject ==
  \A i, j \in DOMAIN objects :
     (i # j /\ ~objects[i].deleted /\ ~objects[j].deleted)
       => RemoteTriple(i) # RemoteTriple(j)

LocalTriple(e) == <<e.image_url, e.object_name, e.user_id>>

NoLocalDuplicate(blob) ==
  \A i, j \in DOMAIN blob : i # j => LocalTriple(blob[i]) # LocalTriple(blob[j])

\* C4: the cache never holds two entries with the same triple, and a
\* saveObject call whose triple is already cached writes nothing.
C4_LocalDuplicateSkip ==
  [][/\ NoLocalDuplicate(storage')
     /\ \A p \in Procs :
          (/\ procs[p].pc = "so_write"
           /\ \E k \in DOMAIN storage :
                 LocalTriple(storage[k]) = LocalTriple(LocalEntry(p)))
            => storage' = storage]_vars

RemoteActive(user_id) ==
  {i \in DOMAIN objects :
     /\ ~objects[i].deleted
     /\ pictures[objects[i].picture_id].user_id = user_id}

CacheIsRemote(user_id) ==
  /\ Len(storage) = Cardinality(RemoteActive(user_id))
  /\ \A i \in RemoteActive(user_id) :
        \E k \in DOMAIN storage :
           /\ storage[k].id = i
           /\ storage[k].object_name = objects[i].object_name
           /\ storage[k].user_id = user_id
           /\ storage[k].image_url
                = pictures[objects[i].picture_id].image_url

Returning(p, op) == procs[p].op = op /\ procs[p].pc = "release"

ItemRows(item, user_id) ==
  IF item.id # 0 THEN {item.id}
  ELSE {i \in DOMAIN objects :
          RemoteTriple(i) = <<createStorageReference(item.image_url),
                              item.object_name, user_id>>}

SoftDeletedItem(item, user_id) ==
  /\ ItemRows(item, user_id) # {}
  /\ \A i \in ItemRows(item, user_id) : objects[i].deleted

\* C6: no read operation returns a soft-deleted Object or Picture.
C6_NoSoftDeletedRead ==
  /\ \A k \in DOMAIN lastRead.result :
        ~SoftDeletedItem(lastRead.result[k], lastRead.user)
  /\ \A k \in DOMAIN lastRead.pics : ~pictures[lastRead.pics[k].id].deleted

PictureRowsOf(user_id, image_url) ==
  {i \in DOMAIN pictures : /\ pictures[i].user_id = user_id
                           /\ pictures[i].image_url = image_url}

\* C7 as stated: a saveObject call for (owner, image) leaves exactly one
\* Picture row for the pair, and the Object row it inserted references it.
C7_ExactlyOnePicture ==
  \A p \in Procs :
     (Returning(p, "saveObject") /\ procs[p].wrote) =>
        /\ Cardinality(PictureRowsOf(procs[p].user_id, procs[p].std)) = 1
        /\ procs[p].obj_id # 0 =>
             objects[procs[p].obj_id].picture_id
               \in PictureRowsOf(procs[p].user_id, procs[p].std)

\* C7 amended: there is at most one Picture row for every (owner, image
\* reference) pair, exactly one once a call has looked the picture up or
\* created it, and the Object row a call inserted references that row.
C7_AtMostOnePicture ==
  /\ \A i, j \in DOMAIN pictures :
        (/\ pictures[i].user_id = pictures[j].user_id
         /\ pictures[i].image_url = pictures[j].image_url) => i = j
  /\ \A p \in Procs :
        procs[p].op = "saveObject" =>
          /\ procs[p].picture_id # 0 =>
               PictureRowsOf(procs[p].user_id, procs[p].std)
                 = {procs[p].picture_id}
          /\ procs[p].obj_id # 0 =>
               /\ procs[p].picture_id # 0
               /\ objects[procs[p].obj_id].picture_id = procs[p].picture_id

\* a second Object row has been attached to the Picture row of the first
C7_SecondObjectSamePicture ==
  \E p \in Procs :
     /\ procs[p].op = "saveObject"
     /\ procs[p].obj_id = 2
     /\ objects[1].picture_id = objects[2].picture_id

\* C8: when a remote step of saveObject failed, the call reaches its end
\* with the new entry in the local cache.
C8_LocalEntryKept ==
  \A p \in Procs :
     (procs[p].op = "saveObject" /\ procs[p].remoteFailed) =>
        /\ procs[p].pc = "release"
        /\ \E k \in DOMAIN storage : storage[k] = LocalEntry(p)

\* a saveObject returns after a failed remote step
C8_RemoteFailed ==
  \E p \in Procs : Returning(p, "saveObject") /\ procs[p].remoteFailed

Day(t) == t \div DayLen

RowsToday(user_id) ==
  {i \in DOMAIN pictures : /\ pictures[i].user_id = user_id
                           /\ Day(pictures[i].created_at) = Day(clock)}

ActiveRowsToday(user_id) == {i \in RowsToday(user_id) : ~pictures[i].deleted}

\* C9 as stated: the check returns the owner's count of Picture rows
\* created in the current day, and canTakePicture iff it is below 10.
C9_CountsRowsOfToday ==
  (lastCheck.valid /\ lastCheck.user # NoUser) =>
     /\ lastCheck.todayCount = Cardinality(RowsToday(lastCheck.user))
     /\ lastCheck.canTakePicture
          <=> Cardinality(RowsToday(lastCheck.user)) < 10

\* C9 amended: when the count query succeeds, the check returns the owner's
\* count of non-deleted Picture rows created in the current day as
\* todayCount, and canTakePicture is true iff that count is below 10.
C9_CountsActiveRowsOfToday ==
  (lastCheck.valid /\ lastCheck.user # NoUser /\ ~lastCheck.err) =>
     /\ lastCheck.todayCount = Cardinality(ActiveRowsToday(lastCheck.user))
     /\ lastCheck.canTakePicture
          <=> Cardinality(ActiveRowsToday(lastCheck.user)) < 10
     /\ lastCheck.limit = 10

\* the owner is blocked at exactly the limit although one more row of the
\* day exists, soft-deleted
C9_BlockedAtLimit ==
  /\ lastCheck.valid /\ ~lastCheck.err
  /\ ~lastCheck.canTakePicture
  /\ lastCheck.todayCount = 10
  /\ Cardinality(RowsToday(lastCheck.user)) = 11

\* C10: rows created before the start of the current day are not counted,
\* so an owner without rows of the current day is allowed whatever the
\* earlier days hold.
C10_ResetsAtDayBoundary ==
  (lastCheck.valid /\ lastCheck.user # NoUser /\ ~lastCheck.err) =>
     /\ lastCheck.todayCount <= Cardinality(RowsToday(lastCheck.user))
     /\ RowsToday(lastCheck.user) = {} =>
          (lastCheck.canTakePicture /\ lastCheck.todayCount = 0)

\* on day 1 the check allows an owner who holds 10 active rows of day 0
C10_AllowedNextDay ==
  /\ lastCheck.valid /\ ~lastCheck.err
  /\ lastCheck.canTakePicture
  /\ Day(clock) = 1
  /\ Cardinality({i \in DOMAIN pictures :
                    /\ pictures[i].user_id = lastCheck.user
                    /\ ~pictures[i].deleted
                    /\ Day(pictures[i].created_at) = 0}) >= 10

\* C11: no step removes a Picture row from the remote table: every row
\* keeps its id, its owner and its image reference.
C11_NoHardDelete ==
  [][\A i \in DOMAIN pictures :
        /\ i \in DOMAIN pictures'
        /\ pictures'[i].user_id = pictures[i].user_id
        /\ pictures'[i].image_url = pictures[i].image_url]_vars

\* C12 as stated: a read of the local cache returns only entries of the
\* requesting user, and the empty list when no user is authenticated.
C12_LocalReadsScopedToSession ==
  lastRead # NoRead =>
     /\ \A k \in DOMAIN lastRead.result :
           lastRead.result[k].user_id = lastRead.user
     /\ authUser = NoUser => lastRead.result = <<>>

\* C12 amended: a read of the local cache returns only entries whose
\* user_id is the requesting user's id (the id passed, else the id of the
\* authenticated user), and the empty list when that yields no user.
C12_LocalReadsScopedToUser ==
  lastRead # NoRead =>
     /\ \A k \in DOMAIN lastRead.result :
           lastRead.result[k].user_id = lastRead.user
     /\ lastRead.user = NoUser => lastRead.result = <<>>

\* a read returns the requesting user's entry out of a cache that holds
\* another owner's entry as well
C12_ReadAmongOthers ==
  /\ lastRead # NoRead
  /\ lastRead.result # <<>>
  /\ \E k \in DOMAIN storage : storage[k].user_id # lastRead.user

\* C13: when a sync that has stored its rows writes its timestamp,
\* getLastSyncTime returns the time of that sync from then on.
C13_LastSyncTimeIsThatSync ==
  [][\A p \in Procs :
        (/\ procs[p].pc \in {"cs_stamp", "sy_stamp"}
         /\ procs'[p].pc = "release"
         /\ <<syncKey', lastSyncTime'>> # <<syncKey, lastSyncTime>>)
          => getLastSyncTime' = clock]_vars

\* the names of a list of detected objects
NamesOf(list) == [k \in DOMAIN list |-> list[k].name]

\* C14: analyzeImageWithAI never rejects and resolves with a list of
\* {name, x, y} for every API outcome; when the response text cannot be
\* parsed the list is never empty: it holds the common-object keywords of the
\* text, or the single placeholder when the text has none.
C14_AnalysisAlwaysResolves ==
  screen.analysis.done =>
    LET a == screen.analysis
        common == {k \in DOMAIN a.text.words :
                     a.text.words[k] \in commonObjects}
    IN /\ a.result.ok
       /\ \A k \in DOMAIN a.result.v :
            /\ DOMAIN a.result.v[k] = {"name", "x", "y"}
            /\ a.result.v[k].x \in 0..100
            /\ a.result.v[k].y \in 0..100
       /\ a.outcome # "text" => a.result.v # <<>>
       /\ (a.outcome = "text" /\ a.text.kind = "prose") =>
            /\ a.result.v # <<>>
            /\ IF common = {}
               THEN NamesOf(a.result.v) = <<"detected object">>
               ELSE /\ {a.result.v[k].name : k \in DOMAIN a.result.v}
                         = {a.text.words[k] : k \in common}
                    /\ Len(a.result.v) = Cardinality(
                         {a.text.words[k] : k \in common})
       /\ (a.outcome = "text" /\ a.text.kind = "json" /\ ~a.text.isArray) =>
            a.result.v # <<>>

\* an unparsable response without keywords was answered with the placeholder
C14_PlaceholderReturned ==
  /\ screen.analysis.done
  /\ screen.analysis.outcome = "text"
  /\ screen.analysis.text.kind = "prose"
  /\ screen.analysis.text.words = <<"the">>
  /\ NamesOf(screen.analysis.result.v) = <<"detected object">>

Capturing == {f \in Flows : screen.flows[f].pc = "capturing"}

\* C15: the quota is read, then decided on, apart from the insert: every flow
\* that goes ahead saw a count below the limit, and the rows of today stay
\* within the limit only up to the number of flows: with two flows that
\* passed at limit - 1 the count exceeds the limit.
C15_ReadThenDecide ==
  /\ \A f \in Capturing :
       /\ screen.flows[f].limitCheck.canTakePicture
       /\ screen.flows[f].limitCheck.todayCount < DAILY_LIMIT
  /\ Cardinality(TodayPictures("u1", clock)) + Cardinality(Capturing)
       <= DAILY_LIMIT - 1 + Cardinality(Flows)

\* both flows passed the check at limit - 1 and both saved
C15_LimitExceeded ==
  /\ \A f \in Flows :
       /\ screen.flows[f].pc = "idle"
       /\ screen.flows[f].limitCheck.canTakePicture
       /\ screen.flows[f].limitCheck.todayCount = DAILY_LIMIT - 1
  /\ Cardinality(TodayPictures("u1", clock)) > DAILY_LIMIT

\* the triple of the call p, known once its arguments are read
CallTriple(p) ==
  <<createStorageReference(procs[p].image), procs[p].name, procs[p].user_id>>

\* a cached entry whose remote Object row is missing
Divergent(triple) ==
  /\ \E k \in DOMAIN storage : LocalTriple(storage[k]) = triple
  /\ ~\E i \in DOMAIN objects : RemoteTriple(i) = triple

\* C16: once the cache holds an entry whose remote Object row is missing,
\* every later saveObject of the same triple stops at the duplicate check,
\* so it never adds the missing remote row.
C16_DivergenceNeverReconciled ==
  [][\A p \in Procs :
       (procs[p].pc = "so_read" /\ Divergent(CallTriple(p)))
         => procs'[p].pc = "release"]_vars

\* the names of the non-deleted remote Object rows of a picture of an owner
ActiveNames(user_id, image_url) ==
  {objects[i].object_name :
     i \in {k \in DOMAIN objects :
              /\ ~objects[k].deleted
              /\ pictures[objects[k].picture_id].user_id = user_id
              /\ pictures[objects[k].picture_id].image_url = image_url}}

\* C17: when an edit-mode saveObjects has finished, the non-deleted remote
\* Object rows of the picture carry exactly the names of the edited list,
\* names saved earlier in the session included.
C17_EditLeavesEditedList ==
  (screen.save.pc = "done" /\ screen.save.isEditMode) =>
    ActiveNames(screen.save.user, createStorageReference(EditedImage))
      = {screen.save.objects[k] : k \in DOMAIN screen.save.objects}

\* the cache entries that do not belong to a user
EntriesOfOthers(blob, user_id) ==
  SelectSeq(blob, LAMBDA e : e.user_id # user_id)

\* C18: a step of clearAllObjects(user) or syncFromSupabase(user) leaves the
\* cache entries of every other user as they were, in their order.
C18_OtherUsersUntouched ==
  [][\A p \in Procs :
       (/\ procs[p].op \in {"clearAllObjects", "syncFromSupabase"}
        /\ procs[p].user_id # NoUser)
         => EntriesOfOthers(storage', procs[p].user_id)
              = EntriesOfOthers(storage, procs[p].user_id)]_vars

\* syncFromSupabase has replaced its user's entries beside another user's
C18_SyncedBesideOthers ==
  \E p \in Procs :
     /\ procs[p].op = "syncFromSupabase"
     /\ procs[p].wrote
     /\ EntriesOfOthers(storage, procs[p].user_id) # <<>>
     /\ EntriesOfOthers(storage, procs[p].user_id) # storage

\* C19: after a sync whose remote fetch failed the button shows 'Sync
\* Failed', not 'Sync Complete', and onSyncComplete is not called; 'Sync
\* Complete' is shown only after a fetch that succeeded.
C19_FailedFetchShowsSyncFailed ==
  screen.sync.alert # "none" =>
    /\ screen.sync.fetchFailed =>
         /\ screen.sync.alert = "Sync Failed"
         /\ ~screen.sync.onSyncComplete
    /\ screen.sync.alert = "Sync Complete" => screen.sync.fetchOk

\* C20: without a valid user id the check answers canTakePicture = false
\* with todayCount 0; when the count query fails it answers canTakePicture =
\* true with todayCount 0; every answer carries limit = 10.
C20_ErrorOutcomes ==
  lastCheck.valid =>
    /\ {"canTakePicture", "todayCount", "limit"} \subseteq DOMAIN lastCheck
    /\ lastCheck.limit = 10
    /\ lastCheck.user = NoUser =>
         (~lastCheck.canTakePicture /\ lastCheck.todayCount = 0)
    /\ lastCheck.err =>
         (lastCheck.canTakePicture /\ lastCheck.todayCount = 0)

\* the check failed open for an owner who is at the limit
C20_FailedOpenAtLimit ==
  /\ lastCheck.valid
  /\ lastCheck.err
  /\ lastCheck.canTakePicture
  /\ Cardinality(ActiveRowsToday(lastCheck.user)) >= 10

\* C21: an image is captured, uploaded or analysed, and the loading flag is
\* set, only after the limit check of the same invocation answered
\* canTakePicture = true for the user signed in when the button was pressed;
\* after the answer false none of them happens.
C21_CaptureGated ==
  LET c == screen.capture
  IN /\ (c.captured \/ c.uploaded \/ c.analysed \/ c.everLoading) =>
          /\ c.limitCheck.valid
          /\ c.limitCheck.canTakePicture
          /\ c.limitCheck.user = c.user
          /\ c.user # NoUser
     /\ (c.limitCheck.valid /\ ~c.limitCheck.canTakePicture) =>
          /\ ~c.captured /\ ~c.uploaded /\ ~c.analysed
          /\ ~c.isLoading /\ ~c.everLoading
          /\ c.alert = "Daily Limit Reached"
     /\ c.pc = "done" => ~c.isLoading

\* a press at the limit was refused
C21_RefusedAtLimit ==
  /\ screen.capture.pc = "done"
  /\ screen.capture.limitCheck.valid
  /\ ~screen.capture.limitCheck.canTakePicture
  /\ screen.capture.limitCheck.todayCount = DAILY_LIMIT

\* the cached entries of an owner whose name contains the query, whatever
\* the case of either
CachedMatches(query, user_id) ==
  SelectSeq(storage,
            LAMBDA e : /\ e.user_id = user_id
                       /\ IsSubstring(toLowerCase(Chars(query)),
                                      toLowerCase(Chars(e.object_name))))

\* the owner's active remote rows whose name contains the query
RemoteMatches(query, user_id) ==
  {i \in RemoteActive(user_id) :
     IsSubstring(toLowerCase(Chars(query)),
                 toLowerCase(Chars(objects[i].object_name)))}

C23_CoordinatesInRange ==
  screen.analysis.done =>
    \A k \in DOMAIN screen.analysis.result.v :
       /\ screen.analysis.result.v[k].x >= 0
       /\ screen.analysis.result.v[k].x <= 100
       /\ screen.analysis.result.v[k].y >= 0
       /\ screen.analysis.result.v[k].y <= 100

\* coordinates far outside the range came back at its edges
C23_ClampedToEdges ==
  /\ screen.analysis.done
  /\ Len(screen.analysis.text.items) = 2
  /\ screen.analysis.text.items[1].x.v = 1000
  /\ screen.analysis.text.items[2].x.v = -1000
  /\ Len(screen.analysis.result.v) = 2
  /\ screen.analysis.result.v[1].x = 100
  /\ screen.analysis.result.v[2].x = 0

\* the stored file an image reference denotes
FileOf(ref) == ref[2]

SameImage(a, b) == a[1] # "public" /\ b[1] # "public" /\ FileOf(a) = FileOf(b)

\* C24: createStorageReference is a normal form: applying it twice gives
\* what applying it once gives, a plain file path comes back unchanged, and
\* a signed URL maps to the path of its file whatever its token; so the
\* cache and the Picture table hold paths only, and saves of one image
\* under different forms meet in one Picture row and one cached entry.
C24_NormalForm ==
  /\ screen.reference.done =>
       /\ screen.reference.again = screen.reference.ref
       /\ screen.reference.input[1] = "path" =>
            screen.reference.ref = screen.reference.input
       /\ screen.reference.input[1] = "signed" =>
            screen.reference.ref = <<"path", screen.reference.input[2], "">>
  /\ \A i \in DOMAIN storage : storage[i].image_url[1] = "path"
  /\ \A i \in DOMAIN pictures : pictures[i].image_url[1] = "path"
  /\ \A i, j \in DOMAIN pictures :
        /\ pictures[i].user_id = pictures[j].user_id
        /\ SameImage(pictures[i].image_url, pictures[j].image_url)
        => i = j
  /\ \A i, j \in DOMAIN storage :
        /\ storage[i].user_id = storage[j].user_id
        /\ storage[i].object_name = storage[j].object_name
        /\ SameImage(storage[i].image_url, storage[j].image_url)
        => i = j

\* a signed URL under the second token was standardized to its path, and a
\* save handed a signed URL was recognised as a duplicate of the cached
\* entry of the same file
C24_SignedFormsMeet ==
  /\ screen.reference.done
  /\ screen.reference.input = <<"signed", 2, "t2">>
  /\ screen.reference.ref = <<"path", 2, "">>
  /\ procs["p1"].op = "saveObject"
  /\ procs["p1"].pc = "release"
  /\ ~procs["p1"].wrote
  /\ procs["p1"].std = <<"path", 1, "">>
  /\ Len(storage) = 1
  /\ Len(pictures) = 1

\* C25: every call of saveObject, clearAllObjects, clearAndSyncFromSupabase
\* and syncFromSupabase that reached `await writeMutex()` eventually
\* returns with the mutex released, whatever the storage and remote calls
\* answer, an empty remote result included.
C25_EveryCallReturns ==
  (procs["p1"].pc = "mutex") ~> (procs["p1"].pc = "idle" /\ ~isWriting)

\* the call has passed `await writeMutex()` and not yet its finally block
InTry(p) == procs[p].pc \notin {"idle", "mutex"}

\* C26: a call of saveObject or clearAndSyncFromSupabase leaves the wait
\* only by raising the flag, returns only through its finally block, which
\* lowers the flag it raised; the flag is lowered by nothing else, once per
\* call, and never while another call is inside its try block.
C26_ReleasedOnceByHolder ==
  [][ /\ \A p \in Procs :
           /\ (procs[p].pc = "mutex" /\ procs'[p].pc # "mutex")
                => (~isWriting /\ isWriting' /\ InTry(p)')
           /\ (procs[p].pc # "idle" /\ procs'[p].pc = "idle")
                => (procs[p].pc = "release" /\ isWriting /\ ~isWriting')
           /\ (InTry(p) /\ procs'[p].pc # "idle") => (InTry(p)' /\ isWriting')
      /\ (isWriting /\ ~isWriting')
           => \E p \in Procs :
                 /\ InTry(p) /\ procs'[p].pc = "idle"
                 /\ \A q \in Procs \ {p} : ~InTry(q) /\ procs'[q] = procs[q]
    ]_vars

\* the first call has returned without having stored anything (an early
\* return or a thrown error) and the second call, which waited meanwhile,
\* now holds the mutex
C26_HandedOver ==
  /\ procs["p1"].pc = "idle"
  /\ procs["p2"].pc \notin {"idle", "mutex"}
  /\ isWriting
  /\ storage = <<>>
  /\ pictures = <<>>

\* the call of syncFromSupabase has no user, or its fetch has not succeeded
Unfetched(p) ==
  /\ procs[p].op = "syncFromSupabase"
  /\ procs[p].user_id = NoUser \/ ~procs[p].fetchOk

C28_ActiveObjectOnActivePicture ==
  \A i \in DOMAIN objects :
     ~objects[i].deleted =>
        /\ objects[i].picture_id \in DOMAIN pictures
        /\ ~pictures[objects[i].picture_id].deleted

\* the confirmed object is in the local cache
Stored(object_name) ==
  \E k \in DOMAIN storage :
     /\ storage[k].user_id = screen.save.user
     /\ storage[k].object_name = toLowerCaseTrim(object_name)
     /\ storage[k].image_url = <<"path", EditedImage[2], "">>

\* C29: when saveObjects shows the 'Success!' alert, every object of the
\* confirmed list is in the local cache; a list of which an object was not
\* stored ends in the 'Failed to save objects' alert instead.
C29_SuccessMeansAllStored ==
  screen.save.pc = "done" =>
    \A k \in DOMAIN screen.save.objects : Stored(screen.save.objects[k])

====
